---- MODULE Spec2Model ----
(***************************************************************************)
(* Discord RAG chatbot framework: the sync pipeline.                       *)
(*                                                                         *)
(*   job intake (sync-service requestSync)                                 *)
(*     -> sync runner (acquireJob / processJob)                            *)
(*     -> embed worker (acquireBatch / processBatch / processWindow)       *)
(*                                                                         *)
(* The relational store is the shared state; every database round trip of  *)
(* a handler is one step, so that the other tasks interleave between the   *)
(* awaits exactly where the event loop lets them.                          *)
(***************************************************************************)
EXTENDS Integers, Sequences, FiniteSets, TLC

(***************************************************************************)
(* Bounds of the model                                                     *)
(***************************************************************************)
MaxJobs == 1
QueueJobs == 2
MaxTime == 1
MaxAttempts == 2
MaxTokensPerWindow == 3
MaxTokens == 5
EmbedBatchSize == 2
Concurrency == 1
SaveBatchSize == 2
SafetyMargin == 1
EmbedMaxRetries == 2
BreakLookback == 2
BenchMessages == 3
BenchTextLen == 7
VectorLimit == 3
TopCandidatesLimit == 2
MaxDeltaTime == 2
FetchChannels == 2
MaxThreads == 1
MaxFetchConcurrency == 2

(* rows of the embed_queue backlog the worker starts on *)
BacklogRows == 3

(* overlapMessages of a chunk call goes from 0 to MaxOverlap *)
MaxOverlap == 2

(***************************************************************************)
(* Program constants                                                       *)
(***************************************************************************)
SaveMaxRetries == 3
SoftGapMinutes == 5
OverlapMessages == 0
FetchPhaseShare == 30
MaxConsecutiveErrors == 3
CountMaxRetries == 5

NoJob == 0
NoSince == -1
NoThread == "none"
NoCursor == [exists |-> FALSE, last_synced_at |-> NoSince, last_message_id |-> 0]
NoError == [name |-> "", message |-> "", code |-> ""]

Guilds == {"g1"}

(***************************************************************************)
(* The chat service: what the guild holds.  One text channel c1 with one   *)
(* thread t1; a message is visible to a fetch once it has been posted.     *)
(***************************************************************************)
WorldMessages == {1, 2, 3}

MsgChannel(m) == "c1"

MsgThread(m) == IF m = 2 THEN "t1" ELSE NoThread

MsgCreatedAt(m) == IF m = 3 THEN 1 ELSE 0

MsgContentLen(m) == IF m = 2 THEN 0 ELSE 2

TextChannels == {"c1"}

(* toISOString().split('T')[0]: timestamps are minutes, a day has DayLen of them *)
DayLen == 2

DateOf(t) == t \div DayLen

(***************************************************************************)
(* Token counter.  A text is a sequence of characters; the local estimate  *)
(* and the remote count both charge one token per character.              *)
(***************************************************************************)
Chars == {"a", " "}

(* the break characters that occur in the texts of the model *)
BreakPoints == {"\n", " "}

(* a text of n letters, without any break character *)
Letters(n) == [i \in 1..n |-> "a"]

(* text.slice(0, n) *)
Slice(text, n) == SubSeq(text, 1, n)

estimate(text) == Len(text)

(* model.countTokens(...).totalTokens of the remote model *)
countTokens(text) == Len(text)

(* what the API answers to one call: a result, an error the client takes *)
(* for retryable (429, 5xx, timeout), or another error                   *)
CallOutcomes == {"ok", "retryable", "fatal"}

(* the answers to the successive countTokens calls of one countPrecisely *)
CountScripts == [1..CountMaxRetries -> CallOutcomes]

(* a loop that retries after any error *)
RECURSIVE countLoopRetryAll(_, _, _)
countLoopRetryAll(text, script, attempt) ==
    IF attempt >= CountMaxRetries
    THEN [calls |-> attempt, threw |-> FALSE, from |-> "estimate", value |-> estimate(text)]
    ELSE IF script[attempt + 1] = "ok"
    THEN [calls |-> attempt + 1, threw |-> FALSE, from |-> "remote",
          value |-> countTokens(text)]
    ELSE countLoopRetryAll(text, script, attempt + 1)

(* the while loop of countPrecisely from the given attempt (0-based) on: *)
(* calls made so far, and the number returned with the return statement  *)
(* it comes from; no path of the loop throws                             *)
RECURSIVE countLoop(_, _, _)
countLoop(text, script, attempt) ==
    IF attempt >= CountMaxRetries
    THEN [calls |-> attempt, threw |-> FALSE, from |-> "estimate", value |-> estimate(text)]
    ELSE IF script[attempt + 1] = "ok"
    THEN [calls |-> attempt + 1, threw |-> FALSE, from |-> "remote",
          value |-> countTokens(text)]
    ELSE IF script[attempt + 1] = "retryable" /\ attempt < CountMaxRetries - 1
    THEN countLoop(text, script, attempt + 1)
    ELSE [calls |-> attempt + 1, threw |-> FALSE, from |-> "estimate",
          value |-> estimate(text)]

(* the remote model answers the first call *)
countPrecisely(text) == countLoop(text, [i \in 1..CountMaxRetries |-> "ok"], 0).value

(* the binary search of truncate: the longest prefix counted <= limit *)
RECURSIVE searchPrefix(_, _, _, _, _)
searchPrefix(text, limit, left, right, best) ==
    IF left > right THEN best
    ELSE LET mid == (left + right) \div 2
         IN IF countPrecisely(Slice(text, mid)) <= limit
            THEN searchPrefix(text, limit, mid + 1, right, mid)
            ELSE searchPrefix(text, limit, left, mid - 1, best)

(* the backward scan of truncate over the last BreakLookback characters *)
RECURSIVE snapToBreak(_, _)
snapToBreak(output, j) ==
    IF j < 1 \/ j < Len(output) - BreakLookback + 1 THEN output
    ELSE IF output[j] \in BreakPoints THEN Slice(output, j)
    ELSE snapToBreak(output, j - 1)

(* a truncate that cuts at the limit and does not look for a break *)
truncateHard(text, limit) == Slice(text, searchPrefix(text, limit, 0, Len(text), 0))

truncate(text, limit) ==
    LET output == Slice(text, searchPrefix(text, limit, 0, Len(text), 0))
    IN snapToBreak(output, Len(output))

(* an ensureWithinLimit that truncates whatever exceeds the margin *)
ensureWithinMargin(text) ==
    IF estimate(text) <= MaxTokens - SafetyMargin
    THEN [text |-> text, tokens |-> estimate(text), truncated |-> FALSE]
    ELSE [text |-> truncate(text, MaxTokens - SafetyMargin),
          tokens |-> countPrecisely(truncate(text, MaxTokens - SafetyMargin)),
          truncated |-> TRUE]

ensureWithinLimit(text) ==
    IF estimate(text) <= MaxTokens - SafetyMargin
    THEN [text |-> text, tokens |-> estimate(text), truncated |-> FALSE]
    ELSE IF countPrecisely(text) <= MaxTokens
         THEN [text |-> text, tokens |-> countPrecisely(text), truncated |-> FALSE]
         ELSE [text |-> truncate(text, MaxTokens - SafetyMargin),
               tokens |-> countPrecisely(truncate(text, MaxTokens - SafetyMargin)),
               truncated |-> TRUE]

(***************************************************************************)
(* Chunking engine                                                         *)
(***************************************************************************)
RECURSIVE SumEstimate(_)
SumEstimate(buffer) ==
    IF buffer = <<>> THEN 0
    ELSE estimate(Head(buffer).content) + SumEstimate(Tail(buffer))

(* buffer.map((m) => m.content).join('\n') *)
RECURSIVE JoinText(_)
JoinText(buffer) ==
    IF buffer = <<>> THEN <<>>
    ELSE IF Len(buffer) = 1 THEN buffer[1].content
    ELSE buffer[1].content \o <<"\n">> \o JoinText(Tail(buffer))

(* an overlap taken from the start of the window *)
applyOverlapHead(buffer, overlap) ==
    IF overlap = 0 THEN <<>>
    ELSE IF Len(buffer) <= overlap THEN buffer
    ELSE SubSeq(buffer, 1, overlap)

(* messages.slice(-overlap), [] without an overlap *)
applyOverlap(buffer, overlap) ==
    IF overlap = 0 THEN <<>>
    ELSE IF Len(buffer) <= overlap THEN buffer
    ELSE SubSeq(buffer, Len(buffer) - overlap + 1, Len(buffer))

(* a flush that stamps both ends of the window with its first message *)
flushWindowStartOnly(buffer, seq) ==
    [windowSeq |-> seq,
     messageIds |-> [i \in 1..Len(buffer) |-> buffer[i].id],
     startAt |-> buffer[1].createdAt,
     endAt |-> buffer[1].createdAt,
     tokenCount |-> ensureWithinLimit(JoinText(buffer)).tokens,
     text |-> ensureWithinLimit(JoinText(buffer)).text]

(* the window emitted by flush for a non-empty buffer *)
flushWindow(buffer, seq) ==
    [windowSeq |-> seq,
     messageIds |-> [i \in 1..Len(buffer) |-> buffer[i].id],
     startAt |-> buffer[1].createdAt,
     endAt |-> buffer[Len(buffer)].createdAt,
     tokenCount |-> ensureWithinLimit(JoinText(buffer)).tokens,
     text |-> ensureWithinLimit(JoinText(buffer)).text]

(* an overflow test that looks at the budget before the message is added *)
wouldOverflowLate(tokenBudget, tokenAdd) == tokenBudget > MaxTokensPerWindow

wouldOverflow(tokenBudget, tokenAdd) == tokenBudget + tokenAdd > MaxTokensPerWindow

(* a soft break on the time gap alone *)
softBreakGapOnly(gapMinutes, msg) == gapMinutes > SoftGapMinutes

softBreak(gapMinutes, msg) == gapMinutes > SoftGapMinutes \/ msg.isTopLevel

RECURSIVE chunkLoop(_, _, _, _, _, _)
chunkLoop(msgs, out, buffer, tokenBudget, lastTimestamp, cfg) ==
    IF msgs = <<>>
    THEN IF buffer = <<>> THEN out ELSE Append(out, flushWindow(buffer, Len(out) + 1))
    ELSE LET msg == Head(msgs)
             gapMinutes == msg.createdAt - lastTimestamp
             tokenAdd == estimate(msg.content)
         IN IF buffer = <<>>
            THEN chunkLoop(Tail(msgs), out, <<msg>>, tokenAdd, msg.createdAt, cfg)
            ELSE IF wouldOverflow(tokenBudget, tokenAdd) \/ softBreak(gapMinutes, msg)
                 THEN LET carried == applyOverlap(buffer, cfg.overlapMessages)
                      IN chunkLoop(Tail(msgs),
                                   Append(out, flushWindow(buffer, Len(out) + 1)),
                                   Append(carried, msg),
                                   SumEstimate(carried) + tokenAdd,
                                   msg.createdAt, cfg)
                 ELSE chunkLoop(Tail(msgs), out, Append(buffer, msg),
                                tokenBudget + tokenAdd, msg.createdAt, cfg)

(* the defaults of createChunkingService, as far as they are options of a call *)
defaults == [overlapMessages |-> OverlapMessages]

(* chunk(messages, options): cfg = {...defaults, ...options} *)
chunkWith(msgs, options) ==
    IF msgs = <<>> THEN <<>>
    ELSE chunkLoop(msgs, <<>>, <<>>, 0, msgs[1].createdAt, options)

(* chunk(messages), as createWindows calls it *)
chunk(msgs) == chunkWith(msgs, defaults)

(***************************************************************************)
(* Message fetcher                                                         *)
(***************************************************************************)
(* a container is a text channel (thread = NoThread) or a thread of it *)
ContainerMessages(channel, thread, t) ==
    {m \in WorldMessages : MsgChannel(m) = channel /\ MsgThread(m) = thread
                           /\ MsgCreatedAt(m) <= t}

Newer(a, b) ==
    \/ MsgCreatedAt(a) > MsgCreatedAt(b)
    \/ MsgCreatedAt(a) = MsgCreatedAt(b) /\ a > b

(* channel.messages.fetch pages through a container newest first *)
RECURSIVE NewestFirst(_)
NewestFirst(S) ==
    IF S = {} THEN <<>>
    ELSE LET top == CHOOSE m \in S : \A o \in S \ {m} : Newer(m, o)
         IN <<top>> \o NewestFirst(S \ {top})

(* stop at the first message older than since *)
RECURSIVE TakeUntilOlder(_, _)
TakeUntilOlder(page, since) ==
    IF page = <<>> THEN <<>>
    ELSE IF since # NoSince /\ MsgCreatedAt(Head(page)) < since THEN <<>>
    ELSE <<Head(page)>> \o TakeUntilOlder(Tail(page), since)

fetchMessagesFromChannel(channel, thread, since, t) ==
    TakeUntilOlder(NewestFirst(ContainerMessages(channel, thread, t)), since)

(* allMessages.sort((a, b) => a.createdAt - b.createdAt): stable insertion *)
RECURSIVE InsertByCreatedAt(_, _)
InsertByCreatedAt(sorted, m) ==
    IF sorted = <<>> THEN <<m>>
    ELSE IF MsgCreatedAt(Head(sorted)) <= MsgCreatedAt(m)
         THEN <<Head(sorted)>> \o InsertByCreatedAt(Tail(sorted), m)
         ELSE <<m>> \o sorted

RECURSIVE SortByCreatedAt(_)
SortByCreatedAt(list) ==
    IF list = <<>> THEN <<>>
    ELSE InsertByCreatedAt(SortByCreatedAt(SubSeq(list, 1, Len(list) - 1)), list[Len(list)])

(* two tasks per text channel: the channel itself and its threads *)
TotalTasks == 2 * Cardinality(TextChannels)

(* the merged result; a container whose fetch failed or timed out gives [] *)
fetchMessagesFromGuild(since, t, channelOk, threadOk) ==
    SortByCreatedAt(
        (IF channelOk THEN fetchMessagesFromChannel("c1", NoThread, since, t) ELSE <<>>)
        \o (IF threadOk THEN fetchMessagesFromChannel("c1", "t1", since, t) ELSE <<>>))

(* Math.floor((completed / total) * 30) *)
FetchPercentage(completed, total) == (completed * FetchPhaseShare) \div total

(***************************************************************************)
(* Errors                                                                  *)
(***************************************************************************)
createBaseError(message, code) == [name |-> "BaseError", message |-> message, code |-> code]

FetchError == [name |-> "Error", message |-> "fetch failed", code |-> ""]

ChannelNotFound == [name |-> "Error", message |-> "channel not found", code |-> ""]

(* String(error): Error.prototype.toString *)
ErrorToString(e) == e.name \o ": " \o e.message

(***************************************************************************)
(* State                                                                   *)
(***************************************************************************)
VARIABLES
    sync_operations,     \* sequence of rows, id = index
    sync_cursors,        \* guild -> cursor row (or NoCursor)
    messages,            \* set of persisted message ids
    message_windows,     \* sequence of rows, window_id = index
    embed_queue,         \* sequence of rows in ascending updated_at order
    message_embeddings,  \* set of rows, at most one per window_id
    now,                 \* wall clock
    pending,             \* progress updates issued by callbacks nobody awaits
    intake,              \* the request handler running requestSync
    runner,              \* sync runner instance -> its position in start/processJob
    worker,              \* embed worker instance -> its position in start/processBatch
    services,            \* how the database and the embedding API behave
    bench                \* a chunking run outside any job: its input and its output

vars == <<sync_operations, sync_cursors, messages, message_windows, embed_queue,
          message_embeddings, now, pending, intake, runner, worker, services, bench>>

db == <<sync_operations, sync_cursors, messages, message_windows, embed_queue,
        message_embeddings>>

(* every request to the database or to the embedding API may fail *)
Unreliable == [supabase |-> "any", gemini |-> "any", discord |-> "any"]

(* the results a database request can have: {error: null} or an error *)
DbOutcomes == IF services.supabase = "up" THEN {TRUE} ELSE BOOLEAN

(* whether a fetch task of the Discord client gets through: a task that *)
(* fails is logged by the fetcher and contributes no message             *)
DiscordOutcomes == IF services.discord = "up" THEN {TRUE} ELSE BOOLEAN

(* no chunking run is under way *)
NoBench == [op |-> "idle", job |-> NoJob, messages |-> <<>>, windows |-> <<>>]

IdleRunner ==
    [pc |-> "idle", job |-> NoJob, msgs |-> <<>>, err |-> NoError, tasks |-> 0,
     retries |-> 0, saved |-> 0, groups |-> <<>>, inserted |-> <<>>, waitErrors |-> 0]

IdleWorker == [batch |-> <<>>, inflight |-> {}]

(* commands: the /sync commands the users will still issue *)
IdleIntake(n) == [pc |-> "idle", guild |-> "g1", cursor |-> NoCursor, commands |-> n]

InitDb ==
    /\ sync_operations = <<>>
    /\ sync_cursors = [g \in Guilds |-> NoCursor]
    /\ messages = {}
    /\ message_windows = <<>>
    /\ embed_queue = <<>>
    /\ message_embeddings = {}
    /\ now = 0
    /\ pending = {}

(* index.ts starts one sync runner and one embed worker *)
Init ==
    /\ InitDb
    /\ intake = IdleIntake(MaxJobs)
    /\ runner = [r \in {1} |-> IdleRunner]
    /\ worker = [w \in {1} |-> IdleWorker]
    /\ services = Unreliable
    /\ bench = NoBench

(* the job queue alone: several /sync commands, one runner, no embed worker *)
InitJobs ==
    /\ InitDb
    /\ intake = IdleIntake(QueueJobs)
    /\ runner = [r \in {1} |-> IdleRunner]
    /\ worker = [w \in {} |-> IdleWorker]
    /\ services = Unreliable
    /\ bench = NoBench

(* the job queue with two runner instances polling the same database *)
InitMulti ==
    /\ InitDb
    /\ intake = IdleIntake(QueueJobs)
    /\ runner = [r \in {1, 2} |-> IdleRunner]
    /\ worker = [w \in {} |-> IdleWorker]
    /\ services = Unreliable
    /\ bench = NoBench

Tick ==
    /\ now < MaxTime
    /\ now' = now + 1
    /\ UNCHANGED <<db, pending, intake, runner, worker, services, bench>>

(***************************************************************************)
(* Job intake: sync-service requestSync                                    *)
(***************************************************************************)
(* a /sync command arrives: fetchCursor reads the guild's cursor; a read *)
(* error throws SYNC_CURSOR_READ_FAILED before any write                 *)
RequestFetchCursor ==
    /\ intake.pc = "idle"
    /\ intake.commands > 0
    /\ \E g \in Guilds, ok \in DbOutcomes :
         intake' = IF ok
                   THEN [intake EXCEPT !.pc = "insert", !.guild = g,
                                       !.cursor = sync_cursors[g], !.commands = @ - 1]
                   ELSE [intake EXCEPT !.commands = @ - 1]
    /\ UNCHANGED <<db, now, services, bench, pending, runner, worker>>

NewJob(g, cursor, t) ==
    [status |-> "queued",
     progress |-> [processed |-> 0, total |-> 0, message |-> ""],
     created_at |-> t,
     guild_id |-> g,
     scope |-> "guild",
     target_ids |-> <<>>,
     mode |-> IF cursor.exists THEN "delta" ELSE "full",
     since |-> IF cursor.exists THEN cursor.last_synced_at ELSE NoSince]

(* insert into sync_operations; on error throws SYNC_ENQUEUE_FAILED *)
RequestInsert ==
    /\ intake.pc = "insert"
    /\ \E ok \in DbOutcomes :
         IF ok
         THEN /\ sync_operations' =
                   Append(sync_operations, NewJob(intake.guild, intake.cursor, now))
              /\ intake' = [intake EXCEPT !.pc = "cursor"]
         ELSE /\ intake' = [intake EXCEPT !.pc = "idle"]
              /\ UNCHANGED sync_operations
    /\ UNCHANGED <<sync_cursors, messages, message_windows, embed_queue,
                   message_embeddings, now, services, bench, pending, runner, worker>>

(* the job row of a channel sync: scope channel, the channel as its target *)
NewChannelJob(g, channel, cursor, t) ==
    [NewJob(g, cursor, t) EXCEPT !.scope = "channel", !.target_ids = <<channel>>]

(* a channel sync command arrives: requestChannelSync reads the guild's *)
(* cursor and inserts the job row; an error throws before any write     *)
RequestChannelSync ==
    /\ intake.pc = "idle"
    /\ intake.commands > 0
    /\ \E g \in Guilds, channel \in TextChannels, ok \in DbOutcomes :
         sync_operations' =
             IF ok THEN Append(sync_operations,
                               NewChannelJob(g, channel, sync_cursors[g], now))
             ELSE sync_operations
    /\ intake' = [intake EXCEPT !.commands = @ - 1]
    /\ UNCHANGED <<sync_cursors, messages, message_windows, embed_queue,
                   message_embeddings, now, services, bench, pending, runner, worker>>

(* upsert({guild_id, last_synced_at: now}): last_message_id keeps its value *)
upsertCursor(cursors, g, t) ==
    [cursors EXCEPT ![g] = [exists |-> TRUE, last_synced_at |-> t,
                            last_message_id |-> cursors[g].last_message_id]]

RequestUpsertCursor ==
    /\ intake.pc = "cursor"
    /\ \E ok \in DbOutcomes :
         sync_cursors' = IF ok THEN upsertCursor(sync_cursors, intake.guild, now)
                         ELSE sync_cursors
    /\ intake' = [intake EXCEPT !.pc = "idle"]
    /\ UNCHANGED <<sync_operations, messages, message_windows, embed_queue,
                   message_embeddings, now, services, bench, pending, runner, worker>>

(***************************************************************************)
(* Sync runner: acquireJob, updateProgress, completeJob                    *)
(***************************************************************************)
Jobs == 1..Len(sync_operations)

SetRunner(r, rec) == [runner EXCEPT ![r] = rec]

(* the select without its status filter *)
OldestOfAnyStatus(ops) ==
    {j \in 1..Len(ops) : \A k \in 1..Len(ops) : ops[j].created_at <= ops[k].created_at}

(* the select ordered by created_at descending *)
NewestQueued(ops) ==
    {j \in 1..Len(ops) :
        /\ ops[j].status = "queued"
        /\ \A k \in 1..Len(ops) :
             ops[k].status = "queued" => ops[j].created_at >= ops[k].created_at}

(* .eq('status','queued').order('created_at', ascending).limit(1) *)
OldestQueued(ops) ==
    {j \in 1..Len(ops) :
        /\ ops[j].status = "queued"
        /\ \A k \in 1..Len(ops) :
             ops[k].status = "queued" => ops[j].created_at <= ops[k].created_at}

(* .update({status: 'running'}).eq('id', data.id) *)
MarkRunning(ops, j) == [ops EXCEPT ![j].status = "running"]

(* an update error is only logged; the model keeps the successful write *)
updateProgress(ops, j, processed, total, message) ==
    [ops EXCEPT ![j].progress =
        [processed |-> processed, total |-> total, message |-> message]]

completeJob(ops, j, success, errorMsg, ok) ==
    IF ok
    THEN [ops EXCEPT ![j].status = IF success THEN "completed" ELSE "failed",
                     ![j].progress =
                         IF success
                         THEN [processed |-> 100, total |-> 100, message |-> "sync complete"]
                         ELSE [processed |-> 0, total |-> 0, message |-> errorMsg]]
    ELSE ops

(* the select of acquireJob; a query error or an empty result returns null *)
AcquireSelect(r) ==
    /\ runner[r].pc = "idle"
    /\ \E j \in OldestQueued(sync_operations) :
         runner' = SetRunner(r, [runner[r] EXCEPT !.pc = "acquire", !.job = j])
    /\ UNCHANGED <<db, now, services, bench, pending, intake, worker>>

(* the update of acquireJob; on an update error the job is not processed. *)
(* With the job in hand start calls processJob, which first writes        *)
(* updateProgress(job.id, 0, 1, ...)                                      *)
AcquireUpdate(r) ==
    /\ runner[r].pc = "acquire"
    /\ \E ok \in DbOutcomes :
         IF ok
         THEN /\ sync_operations' =
                   updateProgress(MarkRunning(sync_operations, runner[r].job),
                                  runner[r].job, 0, 1, "starting")
              /\ runner' = SetRunner(r, [runner[r] EXCEPT !.pc = "fetch", !.tasks = 0])
         ELSE /\ runner' = SetRunner(r, IdleRunner)
              /\ UNCHANGED sync_operations
    /\ UNCHANGED <<sync_cursors, messages, message_windows, embed_queue,
                   message_embeddings, now, services, bench, pending, intake, worker>>

(***************************************************************************)
(* processJob, phase 1: fetch                                              *)
(***************************************************************************)
(* job.scope === 'channel' && job.target_ids && job.target_ids.length > 0 *)
IsChannelJob(job) == job.scope = "channel" /\ job.target_ids # <<>>

(* the guild is not in the client's cache: [] without running any task *)
FetchGuildMissing(r) ==
    /\ runner[r].pc = "fetch"
    /\ ~IsChannelJob(sync_operations[runner[r].job])
    /\ runner[r].tasks = 0
    /\ runner' = SetRunner(r, [runner[r] EXCEPT !.pc = "fetched", !.msgs = <<>>])
    /\ UNCHANGED <<db, now, services, bench, pending, intake, worker>>

(* guild.channels.fetch() rejects: the error reaches processJob's catch *)
FetchThrow(r) ==
    /\ runner[r].pc = "fetch"
    /\ ~IsChannelJob(sync_operations[runner[r].job])
    /\ runner[r].tasks = 0
    /\ runner' = SetRunner(r, [runner[r] EXCEPT !.pc = "fail", !.err = FetchError])
    /\ UNCHANGED <<db, now, services, bench, pending, intake, worker>>

(* a task finishes: completedTasks++ and onProgress is called, not awaited; *)
(* its updateProgress is in flight from now on                              *)
FetchTaskDone(r) ==
    /\ runner[r].pc = "fetch"
    /\ ~IsChannelJob(sync_operations[runner[r].job])
    /\ runner[r].tasks < TotalTasks
    /\ runner' = SetRunner(r, [runner[r] EXCEPT !.tasks = @ + 1])
    /\ pending' = pending \cup
         {[runner |-> r, job |-> runner[r].job, completed |-> runner[r].tasks + 1]}
    /\ UNCHANGED <<db, now, services, bench, intake, worker>>

(* Promise.all resolves: merge and sort *)
FetchReturn(r) ==
    /\ runner[r].pc = "fetch"
    /\ ~IsChannelJob(sync_operations[runner[r].job])
    /\ runner[r].tasks = TotalTasks
    /\ \E channelOk \in DiscordOutcomes, threadOk \in DiscordOutcomes :
         runner' = SetRunner(r, [runner[r] EXCEPT
             !.pc = "fetched",
             !.msgs = fetchMessagesFromGuild(sync_operations[runner[r].job].since,
                                             now, channelOk, threadOk)])
    /\ UNCHANGED <<db, now, services, bench, pending, intake, worker>>

(* channel scope: the guild is not cached, or the channel is not found or *)
(* not text based: the error reaches processJob's catch                  *)
FetchChannelThrow(r) ==
    /\ runner[r].pc = "fetch"
    /\ IsChannelJob(sync_operations[runner[r].job])
    /\ runner' = SetRunner(r, [runner[r] EXCEPT !.pc = "fail", !.err = ChannelNotFound])
    /\ UNCHANGED <<db, now, services, bench, pending, intake, worker>>

(* the messages fetchMessagesFromChannel collected before a page request *)
(* failed: the catch logs the error and the list so far is returned      *)
CollectedSoFar(list) == {SubSeq(list, 1, k) : k \in 0..Len(list)}

(* channel scope: updateProgress(10) and messages = the list that        *)
(* fetchMessagesFromChannel returns, as it is                            *)
FetchChannel(r) ==
    /\ runner[r].pc = "fetch"
    /\ IsChannelJob(sync_operations[runner[r].job])
    /\ LET job == sync_operations[runner[r].job]
       IN \E list \in CollectedSoFar(
                fetchMessagesFromChannel(job.target_ids[1], NoThread, job.since, now)) :
            runner' = SetRunner(r, [runner[r] EXCEPT !.pc = "fetched", !.msgs = list])
    /\ sync_operations' =
         updateProgress(sync_operations, runner[r].job, 10, 100, "fetching")
    /\ UNCHANGED <<sync_cursors, messages, message_windows, embed_queue,
                   message_embeddings, now, services, bench, pending, intake, worker>>

(* the database applies a callback's update whenever its request arrives *)
ProgressCallbackLand ==
    /\ \E p \in pending :
         /\ pending' = pending \ {p}
         /\ sync_operations' =
              updateProgress(sync_operations, p.job,
                             FetchPercentage(p.completed, TotalTasks), 100, "fetching")
    /\ UNCHANGED <<sync_cursors, messages, message_windows, embed_queue,
                   message_embeddings, now, services, bench, intake, runner, worker>>

(* messages.length === 0: completeJob(true) and return; *)
(* otherwise updateProgress(30) and on to saveMessages   *)
AfterFetch(r) ==
    /\ runner[r].pc = "fetched"
    /\ \E ok \in DbOutcomes :
         IF runner[r].msgs = <<>>
         THEN /\ sync_operations' =
                   completeJob(sync_operations, runner[r].job, TRUE, "", ok)
              /\ runner' = SetRunner(r, IdleRunner)
         ELSE /\ sync_operations' =
                   updateProgress(sync_operations, runner[r].job, 30, 100, "saving")
              /\ runner' = SetRunner(r, [runner[r] EXCEPT !.pc = "save", !.retries = 0])
    /\ UNCHANGED <<sync_cursors, messages, message_windows, embed_queue,
                   message_embeddings, now, services, bench, pending, intake, worker>>

(***************************************************************************)
(* processJob, phase 2: saveMessages                                       *)
(***************************************************************************)
Min(a, b) == IF a <= b THEN a ELSE b

SeqToSet(q) == {q[i] : i \in 1..Len(q)}

MessageSaveFailed == createBaseError("message save failed", "MESSAGE_SAVE_FAILED")

WindowSaveFailed == createBaseError("window save failed", "WINDOW_SAVE_FAILED")

(* rows.slice(i, i + batchSize) *)
SaveBatchOf(msgs, i) == SubSeq(msgs, i + 1, Min(i + SaveBatchSize, Len(msgs)))

(***************************************************************************)
(* processJob, phase 3: createWindows                                      *)
(***************************************************************************)
(* `${msg.threadId ?? msg.channelId}:${dateKey}` *)
GroupKey(m) ==
    [container |-> IF MsgThread(m) # NoThread THEN MsgThread(m) ELSE MsgChannel(m),
     date |-> DateOf(MsgCreatedAt(m))]

SelectSeq2(q, key) ==
    LET Test(m) == GroupKey(m) = key IN SelectSeq(q, Test)

RejectSeq2(q, key) ==
    LET Test(m) == GroupKey(m) # key IN SelectSeq(q, Test)

(* the Map of groups, in insertion order *)
RECURSIVE GroupMessages(_)
GroupMessages(msgs) ==
    IF msgs = <<>> THEN <<>>
    ELSE <<SelectSeq2(msgs, GroupKey(Head(msgs)))>>
         \o GroupMessages(RejectSeq2(msgs, GroupKey(Head(msgs))))

(* DiscordMessage of a group: isTopLevel = !isThread of the first message *)
DiscordMessages(group) ==
    [i \in 1..Len(group) |->
        [id |-> group[i],
         content |-> Letters(MsgContentLen(group[i])),
         createdAt |-> MsgCreatedAt(group[i]),
         isTopLevel |-> MsgThread(group[1]) = NoThread]]

WindowRows(g, group) ==
    LET windows == chunk(DiscordMessages(group))
    IN [i \in 1..Len(windows) |->
          [guild_id |-> g,
           channel_id |-> MsgChannel(group[1]),
           thread_id |-> MsgThread(group[1]),
           date |-> DateOf(MsgCreatedAt(group[1])),
           window_seq |-> windows[i].windowSeq,
           message_ids |-> windows[i].messageIds,
           start_at |-> windows[i].startAt,
           end_at |-> windows[i].endAt,
           token_est |-> windows[i].tokenCount,
           textLen |-> Len(windows[i].text)]]

SameWindowKey(a, b) ==
    a.channel_id = b.channel_id /\ a.date = b.date /\ a.window_seq = b.window_seq

(* window_id of the stored row with the conflict key of row, 0 if none *)
WindowIdOf(table, row) ==
    IF \E i \in 1..Len(table) : SameWindowKey(table[i], row)
    THEN CHOOSE i \in 1..Len(table) : SameWindowKey(table[i], row)
    ELSE 0

(* an insert in place of the upsert: every row is appended *)
AppendWindowRows(table, rows) == table \o rows

(* upsert onConflict (channel_id, date, window_seq), ignoreDuplicates false *)
RECURSIVE UpsertWindowRows(_, _)
UpsertWindowRows(table, rows) ==
    IF rows = <<>> THEN table
    ELSE LET id == WindowIdOf(table, Head(rows))
         IN UpsertWindowRows(
                IF id = 0 THEN Append(table, Head(rows))
                ELSE [table EXCEPT ![id] = Head(rows)],
                Tail(rows))

(* ids guessed as those of freshly appended rows instead of the returned ones *)
AppendedWindowIds(table, rows) ==
    [i \in 1..Len(rows) |-> Len(table) + i]

(* .select('window_id'): the ids of the rows the upsert wrote *)
InsertedWindowIds(table, rows) ==
    [i \in 1..Len(rows) |-> WindowIdOf(table, rows[i])]

HasQueueRow(q, wid) == \E i \in 1..Len(q) : q[i].window_id = wid

(* the same upsert with ignoreDuplicates false: an existing row is set to ready *)
RECURSIVE EnqueueOverwriting(_, _)
EnqueueOverwriting(q, wids) ==
    IF wids = <<>> THEN q
    ELSE EnqueueOverwriting(
             IF HasQueueRow(q, Head(wids))
             THEN [i \in 1..Len(q) |->
                     IF q[i].window_id = Head(wids)
                     THEN [q[i] EXCEPT !.status = "ready", !.priority = 0]
                     ELSE q[i]]
             ELSE Append(q, [window_id |-> Head(wids), priority |-> 0,
                             status |-> "ready", attempts |-> 0]),
             Tail(wids))

(* upsert onConflict window_id, ignoreDuplicates true: existing rows stay *)
RECURSIVE EnqueueWindowIds(_, _)
EnqueueWindowIds(q, wids) ==
    IF wids = <<>> THEN q
    ELSE EnqueueWindowIds(
             IF HasQueueRow(q, Head(wids)) THEN q
             ELSE Append(q, [window_id |-> Head(wids), priority |-> 0,
                             status |-> "ready", attempts |-> 0]),
             Tail(wids))

(* one upsert of the current batch, with its retry bookkeeping *)
SaveBatch(r) ==
    /\ runner[r].pc = "save"
    /\ \E ok \in DbOutcomes :
         IF ok
         THEN /\ messages' = messages \cup SeqToSet(SaveBatchOf(runner[r].msgs, runner[r].saved))
              /\ IF runner[r].saved + SaveBatchSize < Len(runner[r].msgs)
                 THEN /\ runner' = SetRunner(r, [runner[r] EXCEPT
                             !.saved = @ + SaveBatchSize, !.retries = 0])
                      /\ UNCHANGED sync_operations
                 ELSE \* the last batch: updateProgress(50), createWindows groups
                      /\ runner' = SetRunner(r, [runner[r] EXCEPT
                             !.pc = "chunk", !.saved = 0, !.retries = 0,
                             !.groups = GroupMessages(runner[r].msgs)])
                      /\ sync_operations' =
                           updateProgress(sync_operations, runner[r].job, 50, 100, "chunking")
         ELSE /\ UNCHANGED <<messages, sync_operations>>
              /\ runner' = SetRunner(r,
                     IF runner[r].retries + 1 > SaveMaxRetries
                     THEN [runner[r] EXCEPT !.pc = "fail", !.err = MessageSaveFailed]
                     ELSE [runner[r] EXCEPT !.retries = @ + 1])
    /\ UNCHANGED <<sync_cursors, message_windows, embed_queue,
                   message_embeddings, now, services, bench, pending, intake, worker>>

(* chunk the next group and upsert its windows; an error throws *)
UpsertWindows(r) ==
    /\ runner[r].pc = "chunk"
    /\ runner[r].groups # <<>>
    /\ LET rows == WindowRows(sync_operations[runner[r].job].guild_id,
                              Head(runner[r].groups))
       IN \E ok \in DbOutcomes :
            IF ok
            THEN /\ message_windows' = UpsertWindowRows(message_windows, rows)
                 /\ runner' = SetRunner(r, [runner[r] EXCEPT
                        !.pc = "enqueue",
                        !.inserted = InsertedWindowIds(message_windows', rows)])
            ELSE /\ UNCHANGED message_windows
                 /\ runner' = SetRunner(r, [runner[r] EXCEPT
                        !.pc = "fail", !.err = WindowSaveFailed])
    /\ UNCHANGED <<sync_operations, sync_cursors, messages, embed_queue,
                   message_embeddings, now, services, bench, pending, intake, worker>>

(* enqueue the windows just written; an error is only logged *)
EnqueueWindows(r) ==
    /\ runner[r].pc = "enqueue"
    /\ \E ok \in DbOutcomes :
         embed_queue' = IF ok THEN EnqueueWindowIds(embed_queue, runner[r].inserted)
                        ELSE embed_queue
    /\ IF Len(runner[r].groups) > 1
       THEN /\ runner' = SetRunner(r, [runner[r] EXCEPT
                   !.pc = "chunk", !.groups = Tail(@), !.inserted = <<>>])
            /\ UNCHANGED sync_operations
       ELSE \* createWindows returns: updateProgress(90), then the wait loop
            /\ runner' = SetRunner(r, [runner[r] EXCEPT
                   !.pc = "wait", !.groups = <<>>, !.inserted = <<>>, !.waitErrors = 0])
            /\ sync_operations' =
                 updateProgress(sync_operations, runner[r].job, 90, 100, "embedding")
    /\ UNCHANGED <<sync_cursors, messages, message_windows,
                   message_embeddings, now, services, bench, pending, intake, worker>>

(***************************************************************************)
(* processJob, phase 4: waitForEmbeddingComplete                           *)
(***************************************************************************)
(* .from('embed_queue').select('window_id').eq('status','ready') *)
ReadyWindowIds(q) == {q[i].window_id : i \in {k \in 1..Len(q) : q[k].status = "ready"}}

(* count of message_windows rows of the guild among the ready window ids *)
RemainingCount(table, q, g) ==
    Cardinality({wid \in ReadyWindowIds(q) :
                    wid \in 1..Len(table) /\ table[wid].guild_id = g})

(* the wait returns: updateProgress(99) before the cursor update *)
LeaveWait(r) ==
    /\ runner' = SetRunner(r, [runner[r] EXCEPT !.pc = "cursor", !.waitErrors = 0])
    /\ sync_operations' = updateProgress(sync_operations, runner[r].job, 99, 100, "cursor")

(* one poll of the wait loop *)
WaitPoll(r) ==
    /\ runner[r].pc = "wait"
    /\ LET g == sync_operations[runner[r].job].guild_id
           remaining == RemainingCount(message_windows, embed_queue, g)
       IN \E queryOk \in DbOutcomes, batchOk \in DbOutcomes :
            IF ~queryOk
            THEN IF runner[r].waitErrors + 1 >= MaxConsecutiveErrors
                 THEN LeaveWait(r)
                 ELSE /\ runner' = SetRunner(r, [runner[r] EXCEPT !.waitErrors = @ + 1])
                      /\ UNCHANGED sync_operations
            ELSE IF ReadyWindowIds(embed_queue) = {} \/ ~batchOk \/ remaining = 0
                 THEN LeaveWait(r)
                 ELSE /\ sync_operations' =
                           updateProgress(sync_operations, runner[r].job, 90, 100,
                                          "embedding")
                      /\ runner' = SetRunner(r, [runner[r] EXCEPT !.waitErrors = 0])
    /\ UNCHANGED <<sync_cursors, messages, message_windows, embed_queue,
                   message_embeddings, now, services, bench, pending, intake, worker>>

(* Date.now() - startTime reaches maxWaitTime: continue anyway *)
WaitTimeout(r) ==
    /\ runner[r].pc = "wait"
    /\ LeaveWait(r)
    /\ UNCHANGED <<sync_cursors, messages, message_windows, embed_queue,
                   message_embeddings, now, services, bench, pending, intake, worker>>

(***************************************************************************)
(* processJob, phase 5: cursor update and completion                       *)
(***************************************************************************)
(* upsert({guild_id, last_synced_at: now, last_message_id: messages[last].id}) *)
upsertJobCursor(cursors, g, t, msgs) ==
    [cursors EXCEPT ![g] = [exists |-> TRUE, last_synced_at |-> t,
                            last_message_id |-> msgs[Len(msgs)]]]

(* the cursor upsert; an error is only logged *)
CursorUpsert(r) ==
    /\ runner[r].pc = "cursor"
    /\ \E ok \in DbOutcomes :
         sync_cursors' =
             IF ok THEN upsertJobCursor(sync_cursors,
                                        sync_operations[runner[r].job].guild_id,
                                        now, runner[r].msgs)
             ELSE sync_cursors
    /\ runner' = SetRunner(r, [runner[r] EXCEPT !.pc = "complete"])
    /\ UNCHANGED <<sync_operations, messages, message_windows, embed_queue,
                   message_embeddings, now, services, bench, pending, intake, worker>>

(* completeJob(job.id, true) at the end of the try block *)
CompleteOk(r) ==
    /\ runner[r].pc = "complete"
    /\ \E ok \in DbOutcomes :
         sync_operations' = completeJob(sync_operations, runner[r].job, TRUE, "", ok)
    /\ runner' = SetRunner(r, IdleRunner)
    /\ UNCHANGED <<sync_cursors, messages, message_windows, embed_queue,
                   message_embeddings, now, services, bench, pending, intake, worker>>

(* the catch block: completeJob(job.id, false, String(error)) *)
CompleteFailed(r) ==
    /\ runner[r].pc = "fail"
    /\ \E ok \in DbOutcomes :
         sync_operations' = completeJob(sync_operations, runner[r].job, FALSE,
                                        ErrorToString(runner[r].err), ok)
    /\ runner' = SetRunner(r, IdleRunner)
    /\ UNCHANGED <<sync_cursors, messages, message_windows, embed_queue,
                   message_embeddings, now, services, bench, pending, intake, worker>>

(***************************************************************************)
(* Embed worker                                                            *)
(***************************************************************************)
SetWorker(w, rec) == [worker EXCEPT ![w] = rec]

(* stable insertion by priority DESC; the queue is kept in updated_at order *)
RECURSIVE InsertByPriority(_, _)
InsertByPriority(sorted, row) ==
    IF sorted = <<>> THEN <<row>>
    ELSE IF Head(sorted).priority >= row.priority
         THEN <<Head(sorted)>> \o InsertByPriority(Tail(sorted), row)
         ELSE <<row>> \o sorted

RECURSIVE SortByPriority(_)
SortByPriority(rows) ==
    IF rows = <<>> THEN <<>>
    ELSE InsertByPriority(SortByPriority(SubSeq(rows, 1, Len(rows) - 1)), rows[Len(rows)])

IsReady(row) == row.status = "ready"

(* the select without its status filter *)
acquireBatchAnyStatus(q) ==
    LET rows == SortByPriority(q)
    IN SubSeq(rows, 1, Min(EmbedBatchSize, Len(rows)))

(* .eq('status','ready').order(priority desc).order(updated_at asc).limit(batchSize) *)
acquireBatch(q) ==
    LET ready == SortByPriority(SelectSeq(q, IsReady))
    IN SubSeq(ready, 1, Min(EmbedBatchSize, Len(ready)))

(* .update({...}).eq('id', queueItem.id): the row gets a new updated_at *)
UpdateQueueRow(q, wid, status, attempts) ==
    LET Others(row) == row.window_id # wid
        Mine(row) == row.window_id = wid
        mine == SelectSeq(q, Mine)
    IN IF mine = <<>> THEN q
       ELSE Append(SelectSeq(q, Others),
                   [mine[1] EXCEPT !.status = status, !.attempts = attempts])

InFlight(row) ==
    [window_id |-> row.window_id, attempts |-> row.attempts,
     phase |-> "text", textLen |-> 0, source |-> <<>>]

(* processWindow started for every row of the batch at once *)
StartAll(batch) ==
    [batch |-> <<>>,
     inflight |-> {InFlight(batch[i]) : i \in 1..Len(batch)}]

(* processBatch runs processWindow for the next `concurrency` rows *)
StartChunk(batch) ==
    LET n == Min(Concurrency, Len(batch))
    IN [batch |-> SubSeq(batch, n + 1, Len(batch)),
        inflight |-> {InFlight(batch[i]) : i \in 1..n}]

(* the select of a poll cycle (an error or an empty result idles), then *)
(* processBatch starts on the rows                                      *)
AcquireBatch(w) ==
    /\ worker[w].batch = <<>>
    /\ worker[w].inflight = {}
    /\ acquireBatch(embed_queue) # <<>>
    /\ worker' = SetWorker(w, StartChunk(acquireBatch(embed_queue)))
    /\ UNCHANGED <<db, now, services, bench, pending, intake, runner>>

(* a processWindow moves on; when the last one of a chunk has settled *)
(* processBatch starts the next chunk                                 *)
Advance(w, it, next) ==
    LET rest == (worker[w].inflight \ {it}) \cup next
    IN SetWorker(w, IF rest = {} /\ worker[w].batch # <<>>
                    THEN StartChunk(worker[w].batch)
                    ELSE [worker[w] EXCEPT !.inflight = rest])

RECURSIVE RestoredLen(_, _)
(* join('\n') of the content_plain of the stored messages that have one *)
RestoredLen(ids, stored) ==
    IF ids = <<>> THEN 0
    ELSE IF Head(ids) \in stored /\ MsgContentLen(Head(ids)) > 0
         THEN MsgContentLen(Head(ids))
              + (IF RestoredLen(Tail(ids), stored) > 0
                 THEN 1 + RestoredLen(Tail(ids), stored) ELSE 0)
         ELSE RestoredLen(Tail(ids), stored)

(* a fetchWindowText that returns a blank instead of nothing *)
fetchWindowTextOrBlank(table, stored, wid, readOk) ==
    IF ~readOk \/ wid \notin 1..Len(table) THEN 1
    ELSE IF table[wid].textLen > 0 THEN table[wid].textLen
    ELSE 1 + RestoredLen(table[wid].message_ids, stored)

(* length of the text fetchWindowText returns; 0 stands for null or '' *)
fetchWindowText(table, stored, wid, readOk) ==
    IF ~readOk \/ wid \notin 1..Len(table) THEN 0
    ELSE IF table[wid].textLen > 0 THEN table[wid].textLen
    ELSE RestoredLen(table[wid].message_ids, stored)

(* the answers to the successive calls of one embedWindow *)
Scripts == [1..EmbedMaxRetries -> CallOutcomes]

(* the scripts the API can follow: any; 429 on every call; or a few 429s *)
(* and then an embedding before the client gives up                      *)
GeminiScripts ==
    CASE services.gemini = "down" ->
           {[i \in 1..EmbedMaxRetries |-> "retryable"]}
      [] services.gemini = "recovering" ->
           {sc \in Scripts :
               \E k \in 1..(EmbedMaxRetries - 1) :
                   \A i \in 1..EmbedMaxRetries :
                       sc[i] = IF i <= k THEN "retryable" ELSE "ok"}
      [] OTHER -> Scripts

(* a loop that goes on to the next call after any error *)
RECURSIVE embedLoopRetryAll(_, _)
embedLoopRetryAll(script, attempt) ==
    IF attempt > EmbedMaxRetries
    THEN [ok |-> FALSE, calls |-> attempt - 1, thrown |-> "exhausted"]
    ELSE IF script[attempt] = "ok"
    THEN [ok |-> TRUE, calls |-> attempt, thrown |-> "none"]
    ELSE IF attempt < EmbedMaxRetries
         THEN embedLoopRetryAll(script, attempt + 1)
         ELSE [ok |-> FALSE, calls |-> attempt, thrown |-> script[attempt]]

(* the retry loop of embedWindow from call number attempt on; thrown is *)
(* the error of the call the loop rethrows                              *)
RECURSIVE embedLoop(_, _)
embedLoop(script, attempt) ==
    IF attempt > EmbedMaxRetries
    THEN [ok |-> FALSE, calls |-> attempt - 1, thrown |-> "exhausted"]
    ELSE IF script[attempt] = "ok"
    THEN [ok |-> TRUE, calls |-> attempt, thrown |-> "none"]
    ELSE IF script[attempt] = "retryable" /\ attempt < EmbedMaxRetries
         THEN embedLoop(script, attempt + 1)
         ELSE [ok |-> FALSE, calls |-> attempt, thrown |-> script[attempt]]

(* a client without the retry loop: the first error is thrown *)
embedWindowOnce(script) ==
    [ok |-> script[1] = "ok", calls |-> 1,
     thrown |-> IF script[1] = "ok" THEN "none" ELSE script[1]]

(* ok: an embedding is returned; otherwise the last error is thrown *)
embedWindow(script) == embedLoop(script, 1)

(* the same loop, for the query of a chat request *)
embedQuery(script) == embedLoop(script, 1)

(* processWindow: fetchWindowText, ensureWithinLimit, embedWindow *)
FetchAndEmbed(w) ==
    /\ \E it \in worker[w].inflight, readOk \in DbOutcomes, script \in GeminiScripts :
         /\ it.phase = "text"
         /\ LET len == fetchWindowText(message_windows, messages, it.window_id, readOk)
                embedOk == embedWindow(script).ok
            IN worker' = Advance(w, it,
                   {IF len = 0
                    THEN [it EXCEPT !.phase = "notext"]
                    ELSE [it EXCEPT !.phase = IF embedOk THEN "upsert" ELSE "catch",
                                    !.textLen = Len(ensureWithinLimit(Letters(len)).text),
                                    !.source = message_windows[it.window_id].message_ids]})
    /\ UNCHANGED <<db, now, services, bench, pending, intake, runner>>

(* no text: status failed, attempts left as it was *)
MarkNoTextUncounted(w) ==
    /\ \E it \in worker[w].inflight, ok \in DbOutcomes :
         /\ it.phase = "notext"
         /\ embed_queue' =
              IF ok THEN UpdateQueueRow(embed_queue, it.window_id, "failed", it.attempts)
              ELSE embed_queue
         /\ worker' = Advance(w, it, {})
    /\ UNCHANGED <<sync_operations, sync_cursors, messages, message_windows,
                   message_embeddings, now, services, bench, pending, intake, runner>>

(* no text: status failed, attempts + 1 *)
MarkNoText(w) ==
    /\ \E it \in worker[w].inflight, ok \in DbOutcomes :
         /\ it.phase = "notext"
         /\ embed_queue' =
              IF ok THEN UpdateQueueRow(embed_queue, it.window_id, "failed", it.attempts + 1)
              ELSE embed_queue
         /\ worker' = Advance(w, it, {})
    /\ UNCHANGED <<sync_operations, sync_cursors, messages, message_windows,
                   message_embeddings, now, services, bench, pending, intake, runner>>

(* the upsert left out: nothing is written *)
SkipEmbeddingRow(table, row) == table

(* upsert onConflict window_id, ignoreDuplicates false *)
UpsertEmbeddingRow(table, row) ==
    {e \in table : e.window_id # row.window_id} \cup {row}

(* the message_embeddings upsert; an error is thrown to the catch block *)
UpsertEmbedding(w) ==
    /\ \E it \in worker[w].inflight, ok \in DbOutcomes :
         /\ it.phase = "upsert"
         /\ IF ok
            THEN /\ message_embeddings' =
                      UpsertEmbeddingRow(message_embeddings,
                          [window_id |-> it.window_id, textLen |-> it.textLen,
                           source |-> it.source])
                 /\ worker' = Advance(w, it, {[it EXCEPT !.phase = "done"]})
            ELSE /\ UNCHANGED message_embeddings
                 /\ worker' = Advance(w, it, {[it EXCEPT !.phase = "catch"]})
    /\ UNCHANGED <<sync_operations, sync_cursors, messages, message_windows,
                   embed_queue, now, services, bench, pending, intake, runner>>

(* .update({status: 'done'}): attempts is not part of the update *)
MarkDoneRow(q, wid) ==
    LET Mine(row) == row.window_id = wid
        mine == SelectSeq(q, Mine)
    IN IF mine = <<>> THEN q
       ELSE UpdateQueueRow(q, wid, "done", mine[1].attempts)

(* the final update of the success path; an error is only logged *)
MarkDone(w) ==
    /\ \E it \in worker[w].inflight, ok \in DbOutcomes :
         /\ it.phase = "done"
         /\ embed_queue' = IF ok THEN MarkDoneRow(embed_queue, it.window_id)
                           ELSE embed_queue
         /\ worker' = Advance(w, it, {})
    /\ UNCHANGED <<sync_operations, sync_cursors, messages, message_windows,
                   message_embeddings, now, services, bench, pending, intake, runner>>

(* a failure that never ends the retries *)
RetryStatusReady(newAttempts) == "ready"

(* the threshold compared with > instead of >= *)
RetryStatusStrict(newAttempts) == IF newAttempts > MaxAttempts THEN "failed" ELSE "ready"

(* newStatus = newAttempts >= maxAttempts ? 'failed' : 'ready' *)
RetryStatus(newAttempts) == IF newAttempts >= MaxAttempts THEN "failed" ELSE "ready"

(* the catch block of processWindow; the result of its update is ignored *)
CatchUpdate(w) ==
    /\ \E it \in worker[w].inflight, ok \in DbOutcomes :
         /\ it.phase = "catch"
         /\ embed_queue' =
              IF ok THEN UpdateQueueRow(embed_queue, it.window_id,
                                        RetryStatus(it.attempts + 1), it.attempts + 1)
              ELSE embed_queue
         /\ worker' = Advance(w, it, {})
    /\ UNCHANGED <<sync_operations, sync_cursors, messages, message_windows,
                   message_embeddings, now, services, bench, pending, intake, runner>>

(***************************************************************************)
(* Specifications                                                          *)
(***************************************************************************)
RunnerStep(r) ==
    \/ AcquireSelect(r) \/ AcquireUpdate(r)
    \/ FetchGuildMissing(r) \/ FetchThrow(r) \/ FetchTaskDone(r) \/ FetchReturn(r)
    \/ AfterFetch(r) \/ SaveBatch(r)
    \/ UpsertWindows(r) \/ EnqueueWindows(r)
    \/ WaitPoll(r) \/ WaitTimeout(r)
    \/ CursorUpsert(r) \/ CompleteOk(r) \/ CompleteFailed(r)

WorkerStep(w) ==
    \/ AcquireBatch(w) \/ FetchAndEmbed(w) \/ MarkNoText(w)
    \/ UpsertEmbedding(w) \/ MarkDone(w) \/ CatchUpdate(w)

Intake == RequestFetchCursor \/ RequestInsert \/ RequestUpsertCursor

Next ==
    \/ Tick
    \/ Intake
    \/ ProgressCallbackLand
    \/ \E r \in DOMAIN runner : RunnerStep(r)
    \/ \E w \in DOMAIN worker : WorkerStep(w)

(* the steps of a job whose guild yields no message: the fetch finds no *)
(* guild or throws                                                      *)
QueueStep(r) ==
    \/ AcquireSelect(r) \/ AcquireUpdate(r)
    \/ FetchGuildMissing(r) \/ FetchThrow(r)
    \/ AfterFetch(r) \/ CompleteFailed(r)

NextJobs ==
    \/ Tick
    \/ Intake
    \/ \E r \in DOMAIN runner : QueueStep(r)

(* sync commands of either scope, one runner, no embed worker *)
InitChannel ==
    /\ InitDb
    /\ intake = IdleIntake(MaxJobs)
    /\ runner = [r \in {1} |-> IdleRunner]
    /\ worker = [w \in {} |-> IdleWorker]
    /\ services = Unreliable
    /\ bench = NoBench

(* the sync runner serving guild sync and channel sync commands *)
ChannelStep(r) == RunnerStep(r) \/ FetchChannelThrow(r) \/ FetchChannel(r)

NextChannel ==
    \/ Tick
    \/ Intake
    \/ RequestChannelSync
    \/ ProgressCallbackLand
    \/ \E r \in DOMAIN runner : ChannelStep(r)

(* one sync runner on a healthy database, no embed worker *)
InitRechunk ==
    /\ InitDb
    /\ intake = IdleIntake(MaxJobs)
    /\ runner = [r \in {1} |-> IdleRunner]
    /\ worker = [w \in {} |-> IdleWorker]
    /\ services = [supabase |-> "up", gemini |-> "any", discord |-> "any"]
    /\ bench = NoBench

(* createWindows(job.guild_id, messages) is called a second time with the *)
(* messages of the run that has just returned; bench keeps the            *)
(* message_windows table as the first run left it                         *)
RunAgain(r) ==
    /\ runner[r].pc = "wait"
    /\ bench.op = "idle"
    /\ bench' = [op |-> "rerun", job |-> runner[r].job, messages |-> <<>>,
                 windows |-> message_windows]
    /\ runner' = SetRunner(r, [runner[r] EXCEPT
           !.pc = "chunk", !.groups = GroupMessages(runner[r].msgs), !.inserted = <<>>])
    /\ UNCHANGED <<db, now, services, pending, intake, worker>>

NextRechunk ==
    \/ Tick
    \/ Intake
    \/ ProgressCallbackLand
    \/ \E r \in DOMAIN runner : RunnerStep(r) \/ RunAgain(r)

(* several /sync commands over time served by one runner while the    *)
(* database and the Discord client answer every request, no embed     *)
(* worker                                                             *)
InitDelta ==
    /\ InitDb
    /\ intake = IdleIntake(QueueJobs)
    /\ runner = [r \in {1} |-> IdleRunner]
    /\ worker = [w \in {} |-> IdleWorker]
    /\ services = [supabase |-> "up", gemini |-> "any", discord |-> "up"]
    /\ bench = NoBench

(* createWindows of a job has returned: bench keeps the message_windows *)
(* table as that job left it                                            *)
Synced(r) ==
    /\ runner[r].pc = "wait"
    /\ bench.op = "idle"
    /\ bench' = [op |-> "synced", job |-> runner[r].job, messages |-> runner[r].msgs,
                 windows |-> message_windows]
    /\ UNCHANGED <<db, now, services, pending, intake, runner, worker>>

(* the clock of the successive syncs runs up to MaxDeltaTime *)
TickDelta ==
    /\ now < MaxDeltaTime
    /\ now' = now + 1
    /\ UNCHANGED <<db, pending, intake, runner, worker, services, bench>>

(* the steps of a job nothing fails in *)
DeltaStep(r) ==
    \/ AcquireSelect(r) \/ AcquireUpdate(r)
    \/ FetchTaskDone(r) \/ FetchReturn(r)
    \/ AfterFetch(r) \/ SaveBatch(r)
    \/ UpsertWindows(r) \/ EnqueueWindows(r)
    \/ WaitPoll(r) \/ WaitTimeout(r)
    \/ CursorUpsert(r) \/ CompleteOk(r)

NextDelta ==
    \/ TickDelta
    \/ Intake
    \/ ProgressCallbackLand
    \/ \E r \in DOMAIN runner : DeltaStep(r) \/ Synced(r)

(* the deployment with a healthy database and an embedding API that *)
(* answers 429 to every call                                         *)
InitEmbedDown ==
    /\ InitDb
    /\ intake = IdleIntake(MaxJobs)
    /\ runner = [r \in {1} |-> IdleRunner]
    /\ worker = [w \in {1} |-> IdleWorker]
    /\ services = [supabase |-> "up", gemini |-> "down", discord |-> "any"]
    /\ bench = NoBench

EmbedDownStep(w) ==
    \/ AcquireBatch(w) \/ FetchAndEmbed(w) \/ MarkNoText(w) \/ CatchUpdate(w)

NextEmbedDown ==
    \/ Tick
    \/ Intake
    \/ ProgressCallbackLand
    \/ \E r \in DOMAIN runner : RunnerStep(r)
    \/ \E w \in DOMAIN worker : EmbedDownStep(w)

(* the deployment with a healthy database and an embedding API that *)
(* answers 429 a few times and then succeeds                         *)
InitRecovering ==
    /\ InitDb
    /\ intake = IdleIntake(MaxJobs)
    /\ runner = [r \in {1} |-> IdleRunner]
    /\ worker = [w \in {1} |-> IdleWorker]
    /\ services = [supabase |-> "up", gemini |-> "recovering", discord |-> "any"]
    /\ bench = NoBench

RecoveringStep(w) ==
    \/ AcquireBatch(w) \/ FetchAndEmbed(w) \/ MarkNoText(w)
    \/ UpsertEmbedding(w) \/ MarkDone(w)

NextRecovering ==
    \/ Tick
    \/ Intake
    \/ ProgressCallbackLand
    \/ \E r \in DOMAIN runner : RunnerStep(r)
    \/ \E w \in DOMAIN worker : RecoveringStep(w)

(***************************************************************************)
(* The chunking engine on its own: chunk applied to a list of messages     *)
(***************************************************************************)
(* createdAt of the inputs, in minutes: gaps below, at and above the soft gap *)
BenchTimes == {0, 1, 6, 10}

(* createdAt of the first message: chunk reads only the gaps between *)
(* consecutive messages, so the lists start at either end of BenchTimes *)
BenchStarts == {0, 10}

(* content lengths of the inputs, up to more than a window holds *)
BenchLens == {1, 2, 4}

(* every text over Chars of at most n characters *)
Texts(n) == UNION {[1..k -> Chars] : k \in 0..n}

(* lists of up to BenchMessages messages in any order of createdAt, and *)
(* single messages of every text up to BenchTextLen characters          *)
BenchInputs ==
    {[i \in DOMAIN f |-> [id |-> i, createdAt |-> f[i][1],
                          content |-> Letters(f[i][2]), isTopLevel |-> f[i][3]]] :
        f \in {h \in UNION {[1..k -> BenchTimes \X BenchLens \X BOOLEAN] :
                                k \in 0..BenchMessages} :
                  h = <<>> \/ h[1][1] \in BenchStarts}}
    \cup {<<[id |-> 1, createdAt |-> 0, content |-> text, isTopLevel |-> top]>> :
            text \in Texts(BenchTextLen), top \in BOOLEAN}

InitChunk ==
    /\ InitDb
    /\ intake = IdleIntake(MaxJobs)
    /\ runner = [r \in {1} |-> IdleRunner]
    /\ worker = [w \in {1} |-> IdleWorker]
    /\ services = Unreliable
    /\ bench \in {[op |-> "input", job |-> NoJob, messages |-> m, windows |-> <<>>] :
                    m \in BenchInputs}

(* chunkingService.chunk(messages) *)
ApplyChunk ==
    /\ bench.op = "input"
    /\ bench' = [bench EXCEPT !.op = "chunked", !.windows = chunk(bench.messages)]
    /\ UNCHANGED <<db, now, services, pending, intake, runner, worker>>

NextChunk == ApplyChunk

(***************************************************************************)
(* chunk called with an overlapMessages option                             *)
(***************************************************************************)
(* the lists createWindows passes: isTopLevel is the same for every *)
(* message of a group, in any order of createdAt                    *)
OverlapInputs ==
    {m \in BenchInputs : \A i \in DOMAIN m : m[i].isTopLevel = m[1].isTopLevel}

InitOverlap ==
    /\ InitDb
    /\ intake = IdleIntake(MaxJobs)
    /\ runner = [r \in {1} |-> IdleRunner]
    /\ worker = [w \in {1} |-> IdleWorker]
    /\ services = Unreliable
    /\ bench \in {[op |-> "input", job |-> NoJob, messages |-> m, windows |-> <<>>,
                   overlap |-> k] :
                    m \in OverlapInputs, k \in 0..MaxOverlap}

(* chunkingService.chunk(messages, { overlapMessages }) *)
ApplyChunkWith ==
    /\ bench.op = "input"
    /\ bench' = [bench EXCEPT
          !.op = "chunked",
          !.windows = chunkWith(bench.messages, [overlapMessages |-> bench.overlap])]
    /\ UNCHANGED <<db, now, services, pending, intake, runner, worker>>

NextOverlap == ApplyChunkWith

SpecOverlap == InitOverlap /\ [][NextOverlap]_vars

(***************************************************************************)
(* The Gemini clients on their own: countPrecisely, embedWindow and        *)
(* embedQuery applied to a text while the API follows a script             *)
(***************************************************************************)
InitClients ==
    /\ InitDb
    /\ intake = IdleIntake(MaxJobs)
    /\ runner = [r \in {1} |-> IdleRunner]
    /\ worker = [w \in {1} |-> IdleWorker]
    /\ services = Unreliable
    /\ bench \in {[op |-> "input", text |-> text, counting |-> cs, embedding |-> es,
                    outcome |-> [calls |-> 0]] :
                    text \in Texts(2), cs \in CountScripts, es \in Scripts}

ApplyCountPrecisely ==
    /\ bench.op = "input"
    /\ bench' = [bench EXCEPT !.op = "countPrecisely",
                              !.outcome = countLoop(bench.text, bench.counting, 0)]
    /\ UNCHANGED <<db, now, services, pending, intake, runner, worker>>

ApplyEmbedWindow ==
    /\ bench.op = "input"
    /\ bench' = [bench EXCEPT !.op = "embedWindow",
                              !.outcome = embedWindow(bench.embedding)]
    /\ UNCHANGED <<db, now, services, pending, intake, runner, worker>>

ApplyEmbedQuery ==
    /\ bench.op = "input"
    /\ bench' = [bench EXCEPT !.op = "embedQuery",
                              !.outcome = embedQuery(bench.embedding)]
    /\ UNCHANGED <<db, now, services, pending, intake, runner, worker>>

NextClients == ApplyCountPrecisely \/ ApplyEmbedWindow \/ ApplyEmbedQuery

(* the deployment of index.ts: one sync runner, one embed worker *)
Spec == Init /\ [][Next]_vars

(* the job queue under several /sync commands *)
SpecJobs == InitJobs /\ [][NextJobs]_vars

(* two sync runner instances polling the same table *)
SpecMulti == InitMulti /\ [][NextJobs]_vars

SpecEmbedDown == InitEmbedDown /\ [][NextEmbedDown]_vars

SpecRecovering == InitRecovering /\ [][NextRecovering]_vars

(* guild and channel sync jobs, one runner, no embed worker *)
SpecChannel == InitChannel /\ [][NextChannel]_vars

(* the chunk-and-enqueue phase run twice on the messages of one job *)
SpecRechunk == InitRechunk /\ [][NextRechunk]_vars

SpecChunk == InitChunk /\ [][NextChunk]_vars

SpecClients == InitClients /\ [][NextClients]_vars

SpecDelta == InitDelta /\ [][NextDelta]_vars

(* two embed worker instances polling the same queue, while the database *)
(* and the Discord client answer every request                           *)
InitWorkers ==
    /\ InitDb
    /\ intake = IdleIntake(MaxJobs)
    /\ runner = [r \in {1} |-> IdleRunner]
    /\ worker = [w \in {1, 2} |-> IdleWorker]
    /\ services = [supabase |-> "up", gemini |-> "any", discord |-> "up"]
    /\ bench = NoBench

NextWorkers ==
    \/ Intake
    \/ ProgressCallbackLand
    \/ \E r \in DOMAIN runner : DeltaStep(r)
    \/ \E w \in DOMAIN worker : WorkerStep(w)

SpecWorkers == InitWorkers /\ [][NextWorkers]_vars

(***************************************************************************)
(* The embed worker alone on a backlog: a sync has written BacklogRows     *)
(* windows and their queue rows and waits for the embeddings.  The         *)
(* database either applies every request or may answer with errors         *)
(***************************************************************************)
BacklogMessage(i) == ((i - 1) % Cardinality(WorldMessages)) + 1

BacklogWindow(i) ==
    [guild_id |-> "g1", channel_id |-> MsgChannel(BacklogMessage(i)),
     thread_id |-> NoThread, date |-> 0, window_seq |-> i,
     message_ids |-> <<BacklogMessage(i)>>,
     start_at |-> 0, end_at |-> 0,
     token_est |-> MsgContentLen(BacklogMessage(i)),
     textLen |-> MsgContentLen(BacklogMessage(i))]

InitBacklog ==
    /\ sync_operations =
         <<[NewJob("g1", NoCursor, 0) EXCEPT
                !.status = "running",
                !.progress = [processed |-> 90, total |-> 100, message |-> "embedding"]]>>
    /\ sync_cursors = [g \in Guilds |-> NoCursor]
    /\ messages = WorldMessages
    /\ message_windows = [i \in 1..BacklogRows |-> BacklogWindow(i)]
    /\ embed_queue = [i \in 1..BacklogRows |->
                         [window_id |-> i, priority |-> 0, status |-> "ready", attempts |-> 0]]
    /\ message_embeddings = {}
    /\ now = 0
    /\ pending = {}
    /\ intake = IdleIntake(0)
    /\ runner = [r \in {} |-> IdleRunner]
    /\ worker = [w \in {1} |-> IdleWorker]
    /\ services \in {[supabase |-> db_mode, gemini |-> "any", discord |-> "up"] :
                        db_mode \in {"up", "any"}}
    /\ bench = NoBench

NextBacklog ==
    \/ \E w \in DOMAIN worker : AcquireBatch(w)
    \/ \E w \in DOMAIN worker : FetchAndEmbed(w)
    \/ \E w \in DOMAIN worker : MarkNoText(w)
    \/ \E w \in DOMAIN worker : UpsertEmbedding(w)
    \/ \E w \in DOMAIN worker : MarkDone(w)
    \/ \E w \in DOMAIN worker : CatchUpdate(w)

(* start loops for ever and every call it awaits returns *)
SpecBacklog == InitBacklog /\ [][NextBacklog]_vars /\ WF_vars(NextBacklog)

(***************************************************************************)
(* fetchMessagesFromGuild with its two p-limit limiters.  bench holds one  *)
(* call: limit is DISCORD_FETCH_CONCURRENCY, task the state of the two     *)
(* tasks of every text channel, thread the state of every thread fetch,    *)
(* started the number of times a thread fetch was begun, result the        *)
(* sources whose messages were merged                                      *)
(***************************************************************************)
GuildChannels == 1..FetchChannels

TaskKinds == {"messages", "threads"}

(* the threads of a channel: the active ones, then the archived ones *)
ThreadKinds == {"active", "archived"}

ThreadIds == GuildChannels \X ThreadKinds \X (1..MaxThreads)

(* the threads that exist: the first active[c] and archived[c] of channel c *)
Exists(b, th) ==
    th[3] <= (IF th[2] = "active" THEN b.active[th[1]] ELSE b.archived[th[1]])

(* every thread fetch on the limiter the channel tasks run on *)
sharedLimiter == "channelLimit"

(* threadLimit = pLimit(concurrency), apart from channelLimit *)
threadLimiter == "threadLimit"

(* activeCount of a limiter: the functions it has started and not settled *)
ActiveCount(b, limiter) ==
    (IF limiter = "channelLimit"
     THEN Cardinality({t \in GuildChannels \X TaskKinds :
                          b.task[t] \notin {"queued", "done"}})
     ELSE 0)
    + (IF limiter = threadLimiter
       THEN Cardinality({th \in ThreadIds : b.thread[th] = "running"})
       ELSE 0)

SetBench(b) ==
    /\ bench' = b
    /\ UNCHANGED <<db, now, services, pending, intake, runner, worker>>

(* channelLimit starts a queued task when it has a free slot *)
StartTask(c, kind) ==
    /\ bench.op = "fetchGuild"
    /\ bench.task[<<c, kind>>] = "queued"
    /\ ActiveCount(bench, "channelLimit") < bench.limit
    /\ SetBench([bench EXCEPT !.task[<<c, kind>>] = "running"])

(* the messages task of a channel resolves: fetchMessagesFromChannel *)
(* catches its errors and returns what it collected                  *)
MessagesTaskDone(c) ==
    /\ bench.op = "fetchGuild"
    /\ bench.task[<<c, "messages">>] = "running"
    /\ SetBench([bench EXCEPT !.task[<<c, "messages">>] = "done",
                              !.result = @ \cup {<<c, "channel", 0>>}])

(* threads.fetchActive() returns: every active thread is handed to the *)
(* thread limiter, and the task awaits them all                        *)
ScheduleActive(c) ==
    /\ bench.op = "fetchGuild"
    /\ bench.task[<<c, "threads">>] = "running"
    /\ SetBench([bench EXCEPT
           !.task[<<c, "threads">>] = "awaitActive",
           !.thread = [th \in ThreadIds |->
                          IF th[1] = c /\ th[2] = "active" /\ Exists(bench, th)
                          THEN "queued" ELSE @[th]]])

(* Promise.all(activePromises) resolves; threads.fetchArchived() returns *)
(* and every archived thread is handed to the thread limiter             *)
ScheduleArchived(c) ==
    /\ bench.op = "fetchGuild"
    /\ bench.task[<<c, "threads">>] = "awaitActive"
    /\ \A th \in ThreadIds :
          (th[1] = c /\ th[2] = "active") => bench.thread[th] \notin {"queued", "running"}
    /\ SetBench([bench EXCEPT
           !.task[<<c, "threads">>] = "awaitArchived",
           !.thread = [th \in ThreadIds |->
                          IF th[1] = c /\ th[2] = "archived" /\ Exists(bench, th)
                          THEN "queued" ELSE @[th]]])

(* Promise.all(archivedPromises) resolves: the threads task returns *)
ThreadsTaskDone(c) ==
    /\ bench.op = "fetchGuild"
    /\ bench.task[<<c, "threads">>] = "awaitArchived"
    /\ \A th \in ThreadIds :
          (th[1] = c /\ th[2] = "archived") => bench.thread[th] \notin {"queued", "running"}
    /\ SetBench([bench EXCEPT !.task[<<c, "threads">>] = "done"])

(* the limiter of the thread fetches starts a queued one *)
StartThread(th) ==
    /\ bench.op = "fetchGuild"
    /\ bench.thread[th] = "queued"
    /\ ActiveCount(bench, threadLimiter) < bench.limit
    /\ SetBench([bench EXCEPT !.thread[th] = "running", !.started[th] = @ + 1])

(* a thread fetch that is handed to the limiter again after its timeout *)
ThreadSettlesRetry(th) ==
    /\ bench.op = "fetchGuild"
    /\ bench.thread[th] = "running"
    /\ \E outcome \in {"ok", "timeout", "error"} :
         SetBench([bench EXCEPT
             !.thread[th] = IF outcome = "timeout" THEN "queued" ELSE outcome,
             !.result = IF outcome = "ok" THEN @ \cup {th} ELSE @])

(* withTimeout(fetchMessagesFromThread, 30000) settles: the messages, or *)
(* the timeout or another error, caught and turned into []               *)
ThreadSettles(th) ==
    /\ bench.op = "fetchGuild"
    /\ bench.thread[th] = "running"
    /\ \E outcome \in {"ok", "timeout", "error"} :
         SetBench([bench EXCEPT
             !.thread[th] = outcome,
             !.result = IF outcome = "ok" THEN @ \cup {th} ELSE @])

(* Promise.all(tasks) resolves: merge, sort, return *)
FetchGuildReturn ==
    /\ bench.op = "fetchGuild"
    /\ \A t \in GuildChannels \X TaskKinds : bench.task[t] = "done"
    /\ SetBench([bench EXCEPT !.op = "returned"])

InitFetch ==
    /\ InitDb
    /\ intake = IdleIntake(MaxJobs)
    /\ runner = [r \in {1} |-> IdleRunner]
    /\ worker = [w \in {} |-> IdleWorker]
    /\ services = Unreliable
    /\ bench \in {[op |-> "fetchGuild", limit |-> limit, active |-> ac, archived |-> ar,
                    task |-> [t \in GuildChannels \X TaskKinds |-> "queued"],
                    thread |-> [th \in ThreadIds |-> "absent"],
                    started |-> [th \in ThreadIds |-> 0],
                    result |-> {}] :
                    limit \in 1..MaxFetchConcurrency,
                    ac \in [GuildChannels -> 0..MaxThreads],
                    ar \in [GuildChannels -> 0..MaxThreads]}

NextFetch ==
    \/ \E c \in GuildChannels, kind \in TaskKinds : StartTask(c, kind)
    \/ \E c \in GuildChannels : MessagesTaskDone(c)
    \/ \E c \in GuildChannels : ScheduleActive(c)
    \/ \E c \in GuildChannels : ScheduleArchived(c)
    \/ \E c \in GuildChannels : ThreadsTaskDone(c)
    \/ \E th \in ThreadIds : StartThread(th)
    \/ \E th \in ThreadIds : ThreadSettles(th)
    \/ FetchGuildReturn

(* every individual Discord fetch returns and the event loop runs what *)
(* is runnable                                                         *)
SpecFetch == InitFetch /\ [][NextFetch]_vars /\ WF_vars(NextFetch)

(***************************************************************************)
(* Chat: chat-service answer and fetchCandidateWindowsHybrid.  bench holds *)
(* the request under way: op is the await the handler is at, matched the   *)
(* RPC result, rows the message_windows rows the fetch found, windows the  *)
(* candidates returned, generated the number of generateContent calls      *)
(***************************************************************************)
NoReply == [answer |-> "none", citations |-> <<>>, latencyMs |-> -1]

IdleChat ==
    [op |-> "idle", started |-> 0, embedded |-> FALSE, matched |-> <<>>, rows |-> {},
     failed |-> "none", windows |-> <<>>, generated |-> 0, reply |-> NoReply,
     threw |-> "none"]

(* what match_windows_in_guild can return: up to p_limit window ids, each *)
(* once (window_id is the key of message_embeddings), nearest first       *)
RpcResults ==
    {m \in UNION {[1..n -> 1..VectorLimit] : n \in 0..VectorLimit} :
        \A i, j \in DOMAIN m : i /= j => m[i] /= m[j]}

(* a candidate list that follows the order of the fetched rows, not of *)
(* the RPC result                                                      *)
RECURSIVE orderedByRowId(_, _)
orderedByRowId(matched, rows) ==
    LET found == {m \in rows : \E i \in DOMAIN matched : matched[i] = m}
    IN IF found = {} THEN <<>>
       ELSE LET least == CHOOSE m \in found : \A o \in found : m <= o
            IN <<least>> \o orderedByRowId(matched, rows \ {least})

(* matched.map(byId.get).filter(Boolean): the rows found, in RPC order *)
RECURSIVE ordered(_, _)
ordered(matched, rows) ==
    IF matched = <<>> THEN <<>>
    ELSE (IF Head(matched) \in rows THEN <<Head(matched)>> ELSE <<>>)
         \o ordered(Tail(matched), rows)

(* .slice(0, limit) *)
slice(list, limit) == SubSeq(list, 1, IF Len(list) < limit THEN Len(list) ELSE limit)

(* answer is called: started = Date.now() *)
ChatRequest ==
    /\ bench.op = "idle"
    /\ bench' = [IdleChat EXCEPT !.op = "embedQuery", !.started = now]
    /\ UNCHANGED <<db, now, services, pending, intake, runner, worker>>

(* embedQuery outside the try: what it throws leaves answer *)
ChatEmbedQueryUncaught ==
    /\ bench.op = "embedQuery"
    /\ \E script \in GeminiScripts :
         bench' = IF embedQuery(script).ok
                  THEN [bench EXCEPT !.op = "rpc", !.embedded = TRUE]
                  ELSE [bench EXCEPT !.op = "answered", !.failed = "embedQuery",
                                     !.threw = "EMBEDDING_FAILED"]
    /\ UNCHANGED <<db, now, services, pending, intake, runner, worker>>

(* embedQuery; what it throws is caught by fetchCandidateWindowsHybrid *)
ChatEmbedQuery ==
    /\ bench.op = "embedQuery"
    /\ \E script \in GeminiScripts :
         bench' = IF embedQuery(script).ok
                  THEN [bench EXCEPT !.op = "rpc", !.embedded = TRUE]
                  ELSE [bench EXCEPT !.op = "retrieved", !.failed = "embedQuery"]
    /\ UNCHANGED <<db, now, services, pending, intake, runner, worker>>

(* supabase.rpc('match_windows_in_guild'): an error, or the matches *)
ChatRpc ==
    /\ bench.op = "rpc"
    /\ \E rpcOk \in DbOutcomes, matched \in RpcResults :
         bench' = IF ~rpcOk
                  THEN [bench EXCEPT !.op = "retrieved", !.failed = "rpc"]
                  ELSE IF matched = <<>>
                  THEN [bench EXCEPT !.op = "retrieved"]
                  ELSE [bench EXCEPT !.op = "fetchWindows", !.matched = matched]
    /\ UNCHANGED <<db, now, services, pending, intake, runner, worker>>

(* the message_windows select of the matched ids, and the reordering *)
ChatFetchWindows ==
    /\ bench.op = "fetchWindows"
    /\ \E fetchOk \in DbOutcomes, rows \in SUBSET (1..VectorLimit) :
         bench' = IF ~fetchOk
                  THEN [bench EXCEPT !.op = "retrieved", !.failed = "fetchWindows"]
                  ELSE [bench EXCEPT !.op = "retrieved", !.rows = rows,
                                     !.windows = slice(ordered(bench.matched, rows),
                                                       TopCandidatesLimit)]
    /\ UNCHANGED <<db, now, services, pending, intake, runner, worker>>

(* answer with no window: the fixed reply *)
ChatNoWindows ==
    /\ bench.op = "retrieved"
    /\ bench.windows = <<>>
    /\ bench' = [bench EXCEPT !.op = "answered",
                              !.reply = [answer |-> "no synchronized messages",
                                         citations |-> <<>>,
                                         latencyMs |-> now - bench.started]]
    /\ UNCHANGED <<db, now, services, pending, intake, runner, worker>>

(* answer with windows: generateContent, whose failure is rethrown as *)
(* CHAT_FAILED                                                        *)
ChatGenerate ==
    /\ bench.op = "retrieved"
    /\ bench.windows /= <<>>
    /\ \E outcome \in {"text", "empty", "throws"} :
         bench' = IF outcome = "throws"
                  THEN [bench EXCEPT !.op = "answered", !.generated = @ + 1,
                                     !.threw = "CHAT_FAILED"]
                  ELSE [bench EXCEPT !.op = "answered", !.generated = @ + 1,
                                     !.reply = [answer |-> IF outcome = "text"
                                                           THEN "generated"
                                                           ELSE "could not generate",
                                                citations |-> bench.windows,
                                                latencyMs |-> now - bench.started]]
    /\ UNCHANGED <<db, now, services, pending, intake, runner, worker>>

(* the reply is sent; the next request may come *)
ChatDone ==
    /\ bench.op = "answered"
    /\ bench' = [IdleChat EXCEPT !.started = bench.started]
    /\ UNCHANGED <<db, now, services, pending, intake, runner, worker>>

InitChat ==
    /\ InitDb
    /\ intake = IdleIntake(MaxJobs)
    /\ runner = [r \in {1} |-> IdleRunner]
    /\ worker = [w \in {1} |-> IdleWorker]
    /\ services = Unreliable
    /\ bench = IdleChat

NextChat ==
    \/ Tick
    \/ ChatRequest
    \/ ChatEmbedQuery
    \/ ChatRpc
    \/ ChatFetchWindows
    \/ ChatNoWindows
    \/ ChatGenerate
    \/ ChatDone

SpecChat == InitChat /\ [][NextChat]_vars

(***************************************************************************)
(* Properties                                                              *)
(***************************************************************************)
Status(ops, j) == ops[j].status

Holding(r) == runner[r].pc \notin {"idle", "acquire"}

HasRow(q, wid) == \E i \in 1..Len(q) : q[i].window_id = wid

RowOf(q, wid) == q[CHOOSE i \in 1..Len(q) : q[i].window_id = wid]

QueueWindowIds(q) == {q[i].window_id : i \in 1..Len(q)}

(* C1: with the single deployed runner a sync_operations row changes status *)
(* only along queued -> running -> completed or queued -> running -> failed; *)
(* rows are created queued and never removed.                                *)
C1_StatusTransitions ==
    [][/\ Len(sync_operations') >= Len(sync_operations)
       /\ \A j \in 1..Len(sync_operations') :
            IF j > Len(sync_operations)
            THEN Status(sync_operations', j) = "queued"
            ELSE \/ Status(sync_operations', j) = Status(sync_operations, j)
                 \/ /\ Status(sync_operations, j) = "queued"
                    /\ Status(sync_operations', j) = "running"
                 \/ /\ Status(sync_operations, j) = "running"
                    /\ Status(sync_operations', j) \in {"completed", "failed"}]_vars

(* a job has gone all the way to completed, with its messages stored *)
C1_Witness ==
    \E j \in Jobs : Status(sync_operations, j) = "completed" /\ messages # {}

(* C2: a runner's acquireJob hands it a job only if the row was still queued *)
(* when that runner's update took effect, so each queued job goes to at most *)
(* one of the concurrently polling runners.                                  *)
C2_AcquireOnlyIfQueued ==
    [][\A r \in DOMAIN runner :
          (runner[r].pc = "acquire" /\ Holding(r)')
              => Status(sync_operations, runner[r].job) = "queued"]_vars

(* C3: an embed_queue row that is done or failed keeps its status, and the *)
(* attempts of a row never decrease (rows are never removed).              *)
C3_QueueMonotone ==
    [][\A wid \in QueueWindowIds(embed_queue) :
          /\ HasRow(embed_queue', wid)
          /\ RowOf(embed_queue', wid).attempts >= RowOf(embed_queue, wid).attempts
          /\ RowOf(embed_queue, wid).status \in {"done", "failed"}
                => RowOf(embed_queue', wid).status = RowOf(embed_queue, wid).status]_vars

(* the runner is about to upsert the queue row of a window whose row is *)
(* already done or failed                                               *)
C3_Witness ==
    \E r \in DOMAIN runner, wid \in QueueWindowIds(embed_queue) :
        /\ runner[r].pc = "enqueue"
        /\ wid \in SeqToSet(runner[r].inserted)
        /\ RowOf(embed_queue, wid).status \in {"done", "failed"}

(* the processWindow executions that are in their catch block *)
Catching(w) == {it \in worker[w].inflight : it.phase = "catch"}

(* the step in which the catch block of item it finishes *)
CatchDone(w, it) == it \in Catching(w) /\ it \notin worker'[w].inflight

(* C4 as claimed: a failed embedding or embedding upsert always increases *)
(* the row's attempts by exactly 1 and sets failed at maxAttempts, ready   *)
(* below it.                                                               *)
C4_FailureAlwaysCounts ==
    [][\A w \in DOMAIN worker : \A it \in Catching(w) :
          CatchDone(w, it) =>
              /\ RowOf(embed_queue', it.window_id).attempts
                     = RowOf(embed_queue, it.window_id).attempts + 1
              /\ RowOf(embed_queue', it.window_id).status
                     = IF RowOf(embed_queue', it.window_id).attempts >= MaxAttempts
                       THEN "failed" ELSE "ready"]_vars

(* C4 amended: the catch block's update, when the database applies it,     *)
(* increases the row's attempts by exactly 1 and sets failed at maxAttempts, *)
(* ready below it; when that update itself fails the row is left as it was *)
(* (ready, attempts unchanged).  In no case does the row become done.      *)
C4_FailureCountsWhenApplied ==
    [][\A w \in DOMAIN worker : \A it \in Catching(w) :
          CatchDone(w, it) =>
              /\ RowOf(embed_queue', it.window_id).status # "done"
              /\ \/ RowOf(embed_queue', it.window_id) = RowOf(embed_queue, it.window_id)
                 \/ /\ RowOf(embed_queue', it.window_id).attempts
                           = RowOf(embed_queue, it.window_id).attempts + 1
                    /\ RowOf(embed_queue', it.window_id).status
                           = IF RowOf(embed_queue', it.window_id).attempts >= MaxAttempts
                             THEN "failed" ELSE "ready"]_vars

(* a row left ready after a counted failure, and a processWindow in its catch *)
(* block for a row that already failed once                                   *)
C4_Witness ==
    \E w \in DOMAIN worker : \E it \in Catching(w) :
        /\ it.attempts >= 1
        /\ RowOf(embed_queue, it.window_id).status = "ready"

(* C5: a queue row that is done has a message_embeddings row, and every *)
(* message_embeddings row has a queue row.                              *)
C5_PipelineOrder ==
    /\ \A wid \in QueueWindowIds(embed_queue) :
          RowOf(embed_queue, wid).status = "done"
              => \E e \in message_embeddings : e.window_id = wid
    /\ \A e \in message_embeddings : HasRow(embed_queue, e.window_id)

C5_Witness ==
    \E wid \in QueueWindowIds(embed_queue) : RowOf(embed_queue, wid).status = "done"

(* C6: while a job is running, and on its step to completed, the stored *)
(* progress.processed never decreases.                                  *)
C6_ProgressMonotone ==
    [][\A j \in Jobs :
          /\ Status(sync_operations, j) = "running"
          /\ Status(sync_operations', j) \in {"running", "completed"}
          => sync_operations'[j].progress.processed
                 >= sync_operations[j].progress.processed]_vars

(* C7: a guild's sync_cursors row is written only by the cursor update at *)
(* the end of a job that went through every phase; requestSync and failing *)
(* jobs leave it alone.                                                    *)
C7_CursorOnlyOnCompletion ==
    [][\A g \in Guilds :
          sync_cursors'[g] # sync_cursors[g]
              => \E r \in DOMAIN runner :
                    /\ runner[r].pc = "cursor"
                    /\ sync_operations[runner[r].job].guild_id = g]_vars

ErrorStrings ==
    {ErrorToString(FetchError), ErrorToString(ChannelNotFound),
     ErrorToString(MessageSaveFailed), ErrorToString(WindowSaveFailed)}

(* processJob has returned for job j and nothing it started is in flight *)
Settled(j) ==
    /\ Status(sync_operations, j) # "queued"
    /\ \A r \in DOMAIN runner : runner[r].job # j
    /\ \A p \in pending : p.job # j

(* C8: once processJob is over, the job is failed with the error's string *)
(* form as progress.message, or completed with processed = 100; it is not *)
(* left running.                                                          *)
C8_JobEndsTerminal ==
    \A j \in Jobs :
        Settled(j) =>
            \/ /\ Status(sync_operations, j) = "completed"
               /\ sync_operations[j].progress.processed = 100
            \/ /\ Status(sync_operations, j) = "failed"
               /\ sync_operations[j].progress.message \in ErrorStrings

(* C9: a job moves from queued to running only if no queued job has a *)
(* smaller created_at.                                                *)
C9_OldestFirst ==
    [][\A j \in Jobs :
          /\ Status(sync_operations, j) = "queued"
          /\ Status(sync_operations', j) = "running"
          => \A k \in Jobs :
                Status(sync_operations, k) = "queued"
                    => sync_operations[j].created_at <= sync_operations[k].created_at]_vars

(* the older job runs while a younger one waits in the queue *)
C9_Witness ==
    \E j \in Jobs, k \in Jobs :
        /\ Status(sync_operations, j) = "running"
        /\ Status(sync_operations, k) = "queued"
        /\ sync_operations[j].created_at < sync_operations[k].created_at

(* C10: every embed_queue row's window_id is that of a stored *)
(* message_windows row.                                        *)
C10_QueuedWindowPersisted ==
    \A wid \in QueueWindowIds(embed_queue) : wid \in 1..Len(message_windows)

(* createWindows has finished with at least two windows queued *)
C10_Witness ==
    /\ Len(embed_queue) >= 2
    /\ \E r \in DOMAIN runner : runner[r].pc = "wait"

(* the queue rows a worker holds: selected by acquireBatch and not yet settled *)
PickedWindowIds(w) ==
    {it.window_id : it \in worker[w].inflight}
        \cup {worker[w].batch[i].window_id : i \in 1..Len(worker[w].batch)}

Finishing(w) == {it \in worker[w].inflight : it.phase = "done"}

HasEmbedding(table, wid) == \E e \in table : e.window_id = wid

NoTextWindow(wid) ==
    /\ wid \in 1..Len(message_windows)
    /\ message_windows[wid].textLen = 0
    /\ \A i \in 1..Len(message_windows[wid].message_ids) :
          \/ message_windows[wid].message_ids[i] \notin messages
          \/ MsgContentLen(message_windows[wid].message_ids[i]) = 0

(* the processWindow executions that have not read the window yet *)
Reading(w) == {it \in worker[w].inflight : it.phase = "text"}

(* the processWindow executions that found no text *)
Textless(w) == {it \in worker[w].inflight : it.phase = "notext"}

Chunked == bench.op = "chunked"

Ascending(msgs) ==
    \A i \in 1..(Len(msgs) - 1) : msgs[i].createdAt <= msgs[i + 1].createdAt

(* the input message with the given id: ids are the positions in the input *)
InputOf(id) == bench.messages[id]

(* C14: for an input ordered by createdAt, the windows chunk emits carry   *)
(* windowSeq 1, 2, ..., n in emission order, each window's messageIds is   *)
(* non-empty and keeps the input order, and its startAt and endAt are the  *)
(* createdAt of its first and last message, with startAt <= endAt.         *)
C14_ChunkWindowsOrdered ==
    (Chunked /\ Ascending(bench.messages)) =>
        \A k \in 1..Len(bench.windows) :
            LET w == bench.windows[k]
                n == Len(w.messageIds)
            IN /\ w.windowSeq = k
               /\ n > 0
               /\ \A i \in 1..(n - 1) : w.messageIds[i] < w.messageIds[i + 1]
               /\ w.startAt = InputOf(w.messageIds[1]).createdAt
               /\ w.endAt = InputOf(w.messageIds[n]).createdAt
               /\ w.startAt <= w.endAt

(* an ordered input chunked into several windows, one of them spanning *)
(* messages of different times                                          *)
C14_Witness ==
    /\ Chunked
    /\ Ascending(bench.messages)
    /\ Len(bench.windows) >= 2
    /\ \E k \in 1..Len(bench.windows) :
           /\ Len(bench.windows[k].messageIds) >= 2
           /\ bench.windows[k].startAt < bench.windows[k].endAt

(***************************************************************************)
(* Sync jobs of both scopes, checked under SpecChannel                     *)
(***************************************************************************)
AscendingByCreatedAt(ids) ==
    \A i \in 1..(Len(ids) - 1) : MsgCreatedAt(ids[i]) <= MsgCreatedAt(ids[i + 1])

(* the runner is inside createWindows(job.guild_id, messages) *)
InCreateWindows(r) == runner[r].pc \in {"chunk", "enqueue"}

(* C15: for sync jobs of every scope the messages handed to the chunker    *)
(* are ascending by created_at, whatever the order they were fetched in,   *)
(* so every persisted message_windows row has start_at <= end_at and       *)
(* message_ids ascending by created_at.                                    *)
C15_ChunkerInputAscending ==
    /\ \A r \in DOMAIN runner :
          InCreateWindows(r) =>
              /\ AscendingByCreatedAt(runner[r].msgs)
              /\ \A k \in 1..Len(runner[r].groups) :
                    AscendingByCreatedAt(runner[r].groups[k])
    /\ \A i \in 1..Len(message_windows) :
          /\ message_windows[i].start_at <= message_windows[i].end_at
          /\ AscendingByCreatedAt(message_windows[i].message_ids)

(* the sum of the token estimates of the messages of window w *)
WindowEstimate(w) ==
    SumEstimate([i \in 1..Len(w.messageIds) |-> InputOf(w.messageIds[i])])

WindowIds == [k \in 1..Len(bench.windows) |-> bench.windows[k].messageIds]

(* the createdAt and the isTopLevel of the input messages *)
InputTimes == [i \in 1..Len(bench.messages) |-> bench.messages[i].createdAt]

InputTopLevel == [i \in 1..Len(bench.messages) |-> bench.messages[i].isTopLevel]

SameWindow(a, b) ==
    \E k \in 1..Len(bench.windows) :
        \E i, j \in 1..Len(bench.windows[k].messageIds) :
            bench.windows[k].messageIds[i] = a /\ bench.windows[k].messageIds[j] = b

(* C17: with overlapMessages = 0, two consecutive input messages are in    *)
(* different windows whenever the later one is more than softGapMinutes    *)
(* after the earlier one or is top-level; non-top-level messages at 0, 1   *)
(* and 10 minutes (softGapMinutes = 5, the first two within the token      *)
(* budget) give the windows {1,2} and {3}, and two messages at 0 and 1     *)
(* minute of which the second is top-level give two windows of one message *)
C17_SoftBreakSplits ==
    Chunked =>
        /\ \A i \in 1..(Len(bench.messages) - 1) :
              (\/ InputTimes[i + 1] - InputTimes[i] > SoftGapMinutes
               \/ InputTopLevel[i + 1])
              => ~SameWindow(i, i + 1)
        /\ (/\ InputTimes = <<0, 1, 10>>
            /\ InputTopLevel = <<FALSE, FALSE, FALSE>>
            /\ estimate(bench.messages[1].content) + estimate(bench.messages[2].content)
                   <= MaxTokensPerWindow)
           => WindowIds = <<(<<1, 2>>), (<<3>>)>>
        /\ (InputTimes = <<0, 1>> /\ InputTopLevel[2])
           => WindowIds = <<(<<1>>), (<<2>>)>>

(* the first example has been chunked into its two windows *)
C17_Witness ==
    /\ Chunked
    /\ InputTimes = <<0, 1, 10>>
    /\ InputTopLevel = <<FALSE, FALSE, FALSE>>
    /\ WindowIds = <<(<<1, 2>>), (<<3>>)>>

(* the input is one message whose estimate exceeds maxTokensPerWindow *)
OversizedSingle ==
    /\ Len(bench.messages) = 1
    /\ estimate(bench.messages[1].content) > MaxTokensPerWindow

IsPrefix(p, text) == Len(p) <= Len(text) /\ p = Slice(text, Len(p))

EndsOnBreak(text) == text # <<>> /\ text[Len(text)] \in BreakPoints

(* the longest prefix of text whose precise count is within limit *)
LongestWithin(text, limit) ==
    LET fits == {n \in 0..Len(text) : countPrecisely(Slice(text, n)) <= limit}
    IN Slice(text, CHOOSE n \in fits : \A m \in fits : m <= n)

(* a break character occurs among the last BreakLookback characters *)
BreakInReach(text) ==
    \E j \in 1..Len(text) : j > Len(text) - BreakLookback /\ text[j] \in BreakPoints

(* C18 as stated: a single message whose estimate exceeds                *)
(* maxTokensPerWindow yields exactly one window whose text is truncated: *)
(* ensureWithinLimit reports truncated = true and the window text is a   *)
(* prefix of the message that ends on a break character.                 *)
C18_OversizedAlwaysTruncated ==
    (Chunked /\ OversizedSingle) =>
        /\ Len(bench.windows) = 1
        /\ ensureWithinLimit(bench.messages[1].content).truncated
        /\ IsPrefix(bench.windows[1].text, bench.messages[1].content)
        /\ EndsOnBreak(bench.windows[1].text)

(* C18 amended: such a message yields exactly one window, whose text is   *)
(* what ensureWithinLimit returns and a prefix of the message.  The text  *)
(* is truncated exactly when its estimate exceeds maxTokens - safetyMargin *)
(* and its precise count exceeds maxTokens; otherwise it is the whole     *)
(* message.  A truncated text is cut from the longest prefix within       *)
(* maxTokens - safetyMargin: it ends on a break character when one occurs *)
(* among the last characters of that prefix that truncate scans, and is   *)
(* that prefix unchanged otherwise.                                       *)
C18_OversizedTruncatedAtCounterLimit ==
    (Chunked /\ OversizedSingle) =>
        LET content == bench.messages[1].content
            ensured == ensureWithinLimit(content)
            cut == LongestWithin(content, MaxTokens - SafetyMargin)
        IN /\ Len(bench.windows) = 1
           /\ bench.windows[1].text = ensured.text
           /\ bench.windows[1].tokenCount = ensured.tokens
           /\ IsPrefix(ensured.text, content)
           /\ ensured.truncated <=>
                 (/\ estimate(content) > MaxTokens - SafetyMargin
                  /\ countPrecisely(content) > MaxTokens)
           /\ ~ensured.truncated => ensured.text = content
           /\ ensured.truncated =>
                 /\ IsPrefix(ensured.text, cut)
                 /\ IF BreakInReach(cut)
                    THEN /\ EndsOnBreak(ensured.text)
                         /\ \A j \in (Len(ensured.text) + 1)..Len(cut) :
                               cut[j] \notin BreakPoints
                    ELSE ensured.text = cut

(* an oversized message was truncated and its text snapped back to a break *)
(* character before the cut                                                *)
C18_Witness ==
    /\ Chunked
    /\ OversizedSingle
    /\ ensureWithinLimit(bench.messages[1].content).truncated
    /\ EndsOnBreak(bench.windows[1].text)
    /\ Len(bench.windows[1].text) < MaxTokens - SafetyMargin

(***************************************************************************)
(* The chunk-and-enqueue phase run twice, checked under SpecRechunk        *)
(***************************************************************************)
(* the job of runner r is the one whose createWindows is run a second time *)
Rerunning(r) == bench.op = "rerun" /\ runner[r].job = bench.job

(* createWindows has returned to processJob *)
CreateWindowsReturned(r) == runner[r].pc = "wait"

QueueRowsOf(q, wid) == {i \in 1..Len(q) : q[i].window_id = wid}

FetchedNothing(r) == runner[r].pc = "fetched" /\ runner[r].msgs = <<>>

(* C20: when the fetch returns zero messages the job, running since it was *)
(* acquired from queued, is completed by the runner's next step, which     *)
(* ends processJob, writes no row to messages, message_windows or          *)
(* embed_queue and does not touch sync_cursors.                            *)
C20_EmptyFetchCompletes ==
    [][\A r \in DOMAIN runner :
          (FetchedNothing(r) /\ runner'[r] # runner[r]) =>
              /\ Status(sync_operations, runner[r].job) = "running"
              /\ Status(sync_operations', runner[r].job) = "completed"
              /\ runner'[r] = IdleRunner
              /\ UNCHANGED <<messages, message_windows, embed_queue, sync_cursors>>]_vars

(***************************************************************************)
(* Token counter properties, checked under SpecChunk on the inputs of one  *)
(* message, whose window text is what ensureWithinLimit returns            *)
(***************************************************************************)
SingleChunked == Chunked /\ Len(bench.messages) = 1

RetriedUpTo(script, n) == \A i \in 1..(n - 1) : script[i] = "retryable"

(* C22: countPrecisely never throws: it makes at most 5 remote count calls, *)
(* goes on to another call only after a retryable error, returns the       *)
(* remote count when a call succeeds, and returns estimate(text) when the  *)
(* 5 attempts are exhausted or the error is not retryable.                 *)
C22_CountPreciselyNeverThrows ==
    bench.op = "countPrecisely" =>
        LET res == bench.outcome
            sc == bench.counting
        IN /\ ~res.threw
           /\ res.calls \in 1..CountMaxRetries
           /\ res.calls <= 5
           /\ RetriedUpTo(sc, res.calls)
           /\ IF sc[res.calls] = "ok"
              THEN res.from = "remote" /\ res.value = countTokens(bench.text)
              ELSE /\ res.from = "estimate" /\ res.value = estimate(bench.text)
                   /\ sc[res.calls] = "fatal" \/ res.calls = CountMaxRetries

(* five calls were made, all answered with a retryable error, and the *)
(* estimate came back                                                 *)
C22_Witness ==
    /\ bench.op = "countPrecisely"
    /\ bench.outcome.calls = CountMaxRetries
    /\ bench.counting[CountMaxRetries] = "retryable"
    /\ bench.outcome.from = "estimate"

(* C23: embedWindow and embedQuery end after at most EmbedMaxRetries (10 *)
(* in the program) calls to the embedding API: another call is made only *)
(* after a retryable error, a non-retryable error is rethrown right      *)
(* after the call that raised it, and the error of the last allowed      *)
(* attempt is the one rethrown when that attempt fails.                  *)
C23_EmbedRetryBounded ==
    bench.op \in {"embedWindow", "embedQuery"} =>
        LET res == bench.outcome
            sc == bench.embedding
        IN /\ res.calls \in 1..EmbedMaxRetries
           /\ RetriedUpTo(sc, res.calls)
           /\ res.ok = (sc[res.calls] = "ok")
           /\ res.ok => res.thrown = "none"
           /\ ~res.ok => /\ res.thrown = sc[res.calls]
                         /\ sc[res.calls] = "fatal" \/ res.calls = EmbedMaxRetries

(* embedQuery used every attempt and rethrew the retryable error of the last *)
C23_Witness ==
    /\ bench.op = "embedQuery"
    /\ bench.outcome.calls = EmbedMaxRetries
    /\ ~bench.outcome.ok
    /\ bench.outcome.thrown = "retryable"
    /\ EmbedMaxRetries > 1

(***************************************************************************)
(* Chat retrieval, checked under SpecChat                                  *)
(***************************************************************************)
(* sub is list with some elements left out, the others in place *)
RECURSIVE IsSubsequence(_, _)
IsSubsequence(sub, list) ==
    IF sub = <<>> THEN TRUE
    ELSE IF list = <<>> THEN FALSE
    ELSE IF Head(sub) = Head(list) THEN IsSubsequence(Tail(sub), Tail(list))
    ELSE IsSubsequence(sub, Tail(list))

(* the window fetch of the request under way answered *)
WindowsFetched ==
    bench.op \in {"retrieved", "answered"} /\ bench.matched /= <<>> /\ bench.failed = "none"

AnsweredWithoutMatch ==
    bench.op = "answered" /\ (bench.failed /= "none" \/ bench.matched = <<>>)

(* C25: when the query embedding, the vector RPC or the window fetch     *)
(* fails, or the RPC returns no match, answer returns the fixed 'no      *)
(* synchronized messages' reply with citations = [] and latencyMs >= 0,  *)
(* without calling the generative model and without throwing.            *)
C25_NoMatchFixedReply ==
    AnsweredWithoutMatch =>
        /\ bench.threw = "none"
        /\ bench.generated = 0
        /\ bench.reply.answer = "no synchronized messages"
        /\ bench.reply.citations = <<>>
        /\ bench.reply.latencyMs >= 0
        /\ bench.reply.latencyMs <= now - bench.started

(* the window fetch failed after a match, time went by, and the fixed *)
(* reply came back                                                    *)
C25_Witness ==
    /\ bench.op = "answered"
    /\ bench.failed = "fetchWindows"
    /\ bench.matched /= <<>>
    /\ bench.reply.answer = "no synchronized messages"
    /\ bench.reply.latencyMs > 0

(***************************************************************************)
(* Window coverage of the messages of a job, checked under Spec            *)
(***************************************************************************)
(* the message_windows rows whose message_ids hold message m *)
RowsHolding(table, m) ==
    {i \in 1..Len(table) :
        \E k \in 1..Len(table[i].message_ids) : table[i].message_ids[k] = m}

(* C26: after the chunk-and-enqueue phase of a job completes without    *)
(* error (overlapMessages = 0), every message of the job appears in     *)
(* message_ids of exactly one persisted message_windows row, including  *)
(* when a thread and its parent channel both have messages on the same  *)
(* date.                                                                *)
C26_EveryMessageInOneWindow ==
    \A r \in DOMAIN runner :
        CreateWindowsReturned(r) =>
            \A k \in 1..Len(runner[r].msgs) :
                Cardinality(RowsHolding(message_windows, runner[r].msgs[k])) = 1

(* what the code keeps: no message is in two rows *)
AtMostOneWindowEach ==
    \A m \in WorldMessages : Cardinality(RowsHolding(message_windows, m)) <= 1

(***************************************************************************)
(* Successive sync jobs, checked under SpecDelta                           *)
(***************************************************************************)
(* the messages some row of the table holds *)
Covered(table) == {m \in WorldMessages : RowsHolding(table, m) # {}}

(* C27: a later sync job never removes earlier-synced messages from       *)
(* window coverage: every message that a job placed in a window is still  *)
(* in message_ids of some message_windows row after any later job; a      *)
(* delta sync that adds messages to an already-synced channel and date    *)
(* does not overwrite the windows of that channel and date.               *)
C27_CoverageNeverShrinks ==
    bench.op = "synced" => Covered(bench.windows) \subseteq Covered(message_windows)

(* every sync requested so far has completed successfully *)
AllSyncsCompleted ==
    /\ sync_operations # <<>>
    /\ intake.pc = "idle"
    /\ \A j \in Jobs : sync_operations[j].status = "completed"

(* the time the most recent sync was requested at *)
LastRequestedAt == sync_operations[Len(sync_operations)].created_at

(* C28: no message is permanently skipped by delta syncs: after any      *)
(* sequence of successfully completed guild-scope syncs, every message   *)
(* created before the most recent sync was requested is present in       *)
(* messages, even if it was posted while an earlier job was running.     *)
C28_NoMessageSkipped ==
    AllSyncsCompleted =>
        \A m \in WorldMessages : MsgCreatedAt(m) < LastRequestedAt => m \in messages

(***************************************************************************)
(* The wait for the embeddings, checked under Spec                         *)
(***************************************************************************)
(* a poll of waitForEmbeddingComplete makes the wait of runner r return *)
PollReturns(r) == WaitPoll(r) /\ runner'[r].pc = "cursor"

(* C30: waitForEmbeddingComplete returns before its 30-minute ceiling    *)
(* only in two cases: no embed_queue row with status ready belongs to a  *)
(* window of the job's guild, or 3 consecutive polls failed with a query *)
(* error (a successful poll resets the error count).                     *)
C30_WaitReturnsOnlyWhenDoneOrErrors ==
    [][\A r \in DOMAIN runner :
          PollReturns(r) =>
              \/ RemainingCount(message_windows, embed_queue,
                                sync_operations[runner[r].job].guild_id) = 0
              \/ runner[r].waitErrors + 1 >= MaxConsecutiveErrors]_vars

(***************************************************************************)
(* Embeddings of overwritten windows, checked under Spec                   *)
(***************************************************************************)
(* the embedding stored for window wid was computed from the row as it is *)
EmbeddingCurrent(wid) ==
    \E e \in message_embeddings :
        /\ e.window_id = wid
        /\ e.source = message_windows[wid].message_ids

(* C29: whenever an embed_queue row is done, the message_embeddings row  *)
(* of its window was computed from the window's current text and         *)
(* message_ids: a sync that overwrites an existing window makes that     *)
(* window ready for embedding again.                                     *)
C29_DoneMeansCurrentEmbedding ==
    \A i \in 1..Len(embed_queue) :
        embed_queue[i].status = "done" => EmbeddingCurrent(embed_queue[i].window_id)

(***************************************************************************)
(* Several embed workers on one queue, checked under SpecWorkers           *)
(***************************************************************************)
(* the processWindow executions under way for window wid, by worker *)
InFlightFor(wid) ==
    {w \in DOMAIN worker : \E it \in worker[w].inflight : it.window_id = wid}

(* C31: at any time at most one processWindow execution is in flight for *)
(* a given window_id, also when more than one embed worker instance      *)
(* drains the queue: a row being processed is not handed out again until *)
(* that processing has finished.                                         *)
C31_OneProcessWindowPerWindow ==
    \A wid \in 1..Len(message_windows) : Cardinality(InFlightFor(wid)) <= 1

(***************************************************************************)
(* The limiters of fetchMessagesFromGuild, checked under SpecFetch         *)
(***************************************************************************)
FetchReturned == bench.op = "returned"

(* every channel task has run and every thread that exists was fetched *)
AllTasksRan ==
    /\ \A t \in GuildChannels \X TaskKinds : bench.task[t] = "done"
    /\ \A th \in ThreadIds :
          IF Exists(bench, th) THEN bench.started[th] >= 1 /\ bench.thread[th] # "running"
          ELSE bench.thread[th] = "absent"

(* C32: fetchMessagesFromGuild cannot deadlock: for any number of text    *)
(* channels and threads and any concurrency limit >= 1, if every Discord  *)
(* fetch returns, all channel and thread tasks eventually run and the     *)
(* function returns, the thread fetches being on a limiter of their own.  *)
C32_FetchGuildReturns == <>(FetchReturned /\ AllTasksRan)

(* returned with one slot per limiter and threads in every channel *)
C32_Witness ==
    /\ FetchReturned
    /\ bench.limit = 1
    /\ \A c \in GuildChannels : bench.active[c] >= 1 /\ bench.archived[c] >= 1
    /\ AllTasksRan


(* the sources that delivered their messages are all in the merged result *)
DeliveredMerged ==
    /\ \A c \in GuildChannels : <<c, "channel", 0>> \in bench.result
    /\ \A th \in ThreadIds : bench.thread[th] = "ok" => th \in bench.result

TimedOut(th) == bench.thread[th] = "timeout"

(* C33: a thread fetch that does not finish within 30 s contributes an    *)
(* empty list, releases its thread-limiter slot and is not retried in the *)
(* same call; the other channels and threads are still fetched and the    *)
(* function returns with what they delivered.                             *)
C33_TimedOutThreadSkipped ==
    /\ [](\A th \in ThreadIds :
             /\ bench.started[th] <= 1
             /\ TimedOut(th) => th \notin bench.result
             /\ ActiveCount(bench, threadLimiter) <= bench.limit)
    /\ ((\E th \in ThreadIds : TimedOut(th))
           ~> (FetchReturned /\ AllTasksRan /\ DeliveredMerged))

(* returned on one thread slot: a thread timed out, a later one of the *)
(* same channel was fetched and merged                                 *)
C33_Witness ==
    /\ FetchReturned
    /\ bench.limit = 1
    /\ \E th \in ThreadIds, other \in ThreadIds :
          /\ th[1] = other[1]
          /\ th[2] = "active" /\ other[2] = "archived"
          /\ TimedOut(th)
          /\ other \in bench.result
    /\ DeliveredMerged


(***************************************************************************)
(* Failing message persistence, checked under Spec                         *)
(***************************************************************************)
(* saveMessages has thrown MESSAGE_SAVE_FAILED in runner r *)
SaveGaveUp(r) == runner[r].pc = "fail" /\ runner[r].err = MessageSaveFailed

(* C34: when the upsert of one message batch keeps failing, saveMessages *)
(* gives up after the first attempt plus SaveMaxRetries retries of that  *)
(* batch, processJob leaves the job failed with MESSAGE_SAVE_FAILED, and *)
(* the job has written no message_windows or embed_queue row.            *)
C34_SaveFailureFailsJob ==
    [][\A r \in DOMAIN runner :
          /\ (runner[r].pc = "save" /\ SaveGaveUp(r)')
                => runner[r].retries = SaveMaxRetries
          /\ (runner[r].pc = "save" /\ runner'[r].pc = "save")
                => runner'[r].retries <= SaveMaxRetries
          /\ (SaveGaveUp(r) /\ runner'[r].pc = "idle")
                => /\ Status(sync_operations', runner[r].job) = "failed"
                   /\ sync_operations'[runner[r].job].progress.message
                         = ErrorToString(MessageSaveFailed)
                   /\ message_windows' = <<>>
                   /\ embed_queue' = <<>>]_vars


(* C35: once a job is completed, every message_windows row it wrote has *)
(* an embed_queue row: an error of the queue insert leaves no window    *)
(* behind a completed job that will never be embedded.                  *)
C35_CompletedJobWindowsQueued ==
    \A j \in Jobs :
        Status(sync_operations, j) = "completed"
            => \A wid \in 1..Len(message_windows) : HasQueueRow(embed_queue, wid)


(* C36: once a job is completed or failed its progress is never written *)
(* again, and a completed job always shows processed = 100 of total =   *)
(* 100, also when progress callbacks of the fetch phase are still       *)
(* pending at the time completeJob runs.                                *)
C36_TerminalProgressFrozen ==
    /\ [](\A j \in 1..Len(sync_operations) :
             sync_operations[j].status = "completed"
                => /\ sync_operations[j].progress.processed = 100
                   /\ sync_operations[j].progress.total = 100)
    /\ [][\A j \in 1..Len(sync_operations) :
             sync_operations[j].status \in {"completed", "failed"}
                => sync_operations'[j].progress = sync_operations[j].progress]_vars


(***************************************************************************)
(* Draining the queue, checked under SpecBacklog                           *)
(***************************************************************************)
QueueStatus(wid) == RowOf(embed_queue, wid).status

(* every row of the backlog is done or failed *)
Drained == \A wid \in 1..BacklogRows : QueueStatus(wid) \in {"done", "failed"}

(* a processWindow execution of item it ends in this step after a failure *)
FailedRun(w, it) ==
    /\ it \in worker[w].inflight
    /\ it.phase \in {"catch", "notext"}
    /\ it \notin worker'[w].inflight

DatabaseApplies == services.supabase = "up"

C38_AttemptsWithinBounds ==
    \A i \in 1..Len(embed_queue) :
        /\ embed_queue[i].attempts <= MaxAttempts
        /\ embed_queue[i].status = "ready" => embed_queue[i].attempts < MaxAttempts
        /\ embed_queue[i].status = "failed" => embed_queue[i].attempts >= 1

(* a row failed at maxAttempts although an earlier run, whose done update *)
(* got lost, had written its embedding                                    *)
C38_Witness ==
    /\ Cardinality(DOMAIN worker) = 1
    /\ \E i \in 1..Len(embed_queue) :
          /\ embed_queue[i].status = "failed"
          /\ embed_queue[i].attempts = MaxAttempts
          /\ HasEmbedding(message_embeddings, embed_queue[i].window_id)


(***************************************************************************)
(* processBatch and the worker loop, checked under SpecBacklog             *)
(***************************************************************************)
(* the windows of the batch worker w holds: waiting or in flight *)
HeldWindows(w) ==
    {worker[w].batch[i].window_id : i \in 1..Len(worker[w].batch)}
    \cup {it.window_id : it \in worker[w].inflight}

(* the executions of processWindow this step starts *)
Started(w) == {it \in worker'[w].inflight : it.phase = "text"} \ worker[w].inflight

(* this step starts on rows of a newly acquired batch *)
NewBatch(w) ==
    /\ Started(w) # {}
    /\ \A i \in 1..Len(worker[w].batch) :
          \A it \in Started(w) : it.window_id # worker[w].batch[i].window_id

(* C39: within one embed worker the processWindow executions in flight  *)
(* never exceed the configured concurrency, and a new batch is acquired *)
(* only after every row of the previous batch has finished.             *)
C39_ConcurrencyRespected ==
    /\ [](\A w \in DOMAIN worker : Cardinality(worker[w].inflight) <= Concurrency)
    /\ [][\A w \in DOMAIN worker :
             NewBatch(w) => HeldWindows(w) = {}]_vars

(* a batch of more rows than the concurrency: one in flight, one waiting, *)
(* the rest of the backlog not yet acquired                               *)
C39_Witness ==
    \E w \in DOMAIN worker :
        /\ Cardinality(worker[w].inflight) = Concurrency
        /\ worker[w].batch # <<>>
        /\ Len(worker[w].batch) + Cardinality(worker[w].inflight) > Concurrency
        /\ \E i \in 1..Len(embed_queue) :
              /\ embed_queue[i].status = "ready"
              /\ embed_queue[i].window_id \notin HeldWindows(w)


(***************************************************************************)
(* Overlapping windows, checked under SpecOverlap                          *)
(***************************************************************************)
RECURSIVE Concat(_)
Concat(seqs) == IF seqs = <<>> THEN <<>> ELSE Head(seqs) \o Concat(Tail(seqs))

InputIds == [i \in 1..Len(bench.messages) |-> bench.messages[i].id]

(* how many messages window j repeats from window j - 1 *)
Repeated(j) ==
    IF j = 1 THEN 0 ELSE Min(bench.overlap, Len(bench.windows[j - 1].messageIds))

(* the messages of window j that no earlier window holds *)
Fresh(j) ==
    SubSeq(bench.windows[j].messageIds, Repeated(j) + 1,
           Len(bench.windows[j].messageIds))

(* C40: with overlapMessages = 0 chunk loses and duplicates nothing: the *)
(* messageIds of the windows, concatenated in windowSeq order, are the   *)
(* input ids; with overlapMessages = k > 0 every input message is still  *)
(* in a window, and a window repeats nothing but the last k messages of  *)
(* the window before it, at its start.                                   *)
C40_ChunkCoversInput ==
    Chunked =>
        /\ \A j \in 1..Len(bench.windows) : bench.windows[j].windowSeq = j
        /\ bench.overlap = 0 => Concat(WindowIds) = InputIds
        /\ \A i \in 1..Len(InputIds) :
              \E j \in 1..Len(bench.windows) :
                  InputIds[i] \in SeqToSet(bench.windows[j].messageIds)
        /\ \A j \in 2..Len(bench.windows) :
              LET prev == bench.windows[j - 1].messageIds
              IN SubSeq(bench.windows[j].messageIds, 1, Repeated(j))
                     = SubSeq(prev, Len(prev) - Repeated(j) + 1, Len(prev))
        /\ Concat([j \in 1..Len(bench.windows) |-> Fresh(j)]) = InputIds

(* three windows with an overlap of 2: the second window is shorter than *)
(* the overlap asks for, the third repeats two messages                  *)
C40_Witness ==
    /\ Chunked
    /\ bench.overlap = 2
    /\ Len(bench.windows) = 3
    /\ Repeated(2) = 1
    /\ Repeated(3) = 2
    /\ Len(bench.windows[3].messageIds) = 3

====
